---- MODULE Spec2Model ----
(***************************************************************************)
(* A model of graphics.py: the GraphWin window, the GraphicsObject         *)
(* lifecycle (draw / undraw / redraw / move / _reconfig), the Transform    *)
(* and the Tk canvas calls they make.                                      *)
(*                                                                         *)
(* The Python code is single threaded.  Every _root.update() (a "pump")    *)
(* lets Tk run pending callbacks; the only callback that touches the      *)
(* lifecycle state is the WM_DELETE_WINDOW protocol handler, GraphWin.     *)
(* close.  An operation therefore takes as input a schedule that says at   *)
(* which of its pumps the user closes which window.                        *)
(*                                                                         *)
(* Operations are written as operators on a record of the program state    *)
(* (the "frame"), so that a method that calls other methods is the         *)
(* composition of their operators and a raised exception (field err)       *)
(* leaves the assignments made before it in place, as in Python.           *)
(***************************************************************************)
EXTENDS Integers, Sequences, FiniteSets, TLC

VARIABLES
    closed,      \* GraphWin.closed, per window
    destroyed,   \* number of master.destroy() calls made for the window
    trans,       \* GraphWin.trans: NoTrans or a Transform record
    items,       \* GraphWin.items: sequence of shapes
    canvas,      \* live Tk canvas item ids of the window
    nextId,      \* the id Tk gives the next canvas item of the window
    swin,        \* GraphicsObject.__window, per shape
    sid,         \* GraphicsObject.__id, per shape
    config,      \* GraphicsObject.__config, per shape
    geom,        \* the points a shape holds: _BBox.__point1 / __point2,
                 \* Point.__x / __y, Text.anchor
    mouseX,      \* GraphWin.mouseX, per window
    mouseY,      \* GraphWin.mouseY
    mouseXright, \* GraphWin.mouseXright
    mouseYright, \* GraphWin.mouseYright
    mousePressed,    \* GraphWin.mousePressed
    mouseRtPressed,  \* GraphWin.mouseRtPressed
    keys,        \* GraphWin.keys: the set of key names
    lastKey,     \* GraphWin.lastKey
    pc,          \* the blocking call the program is in, or Idle
    clock,       \* parity of the number of time.sleep(.1) calls made
    pressSeen,   \* a KeyPress reached the polled window during this getKey
    heap,        \* the Python objects of the cloning program, by reference
    orig,        \* the shape the cloning program has constructed
    copy,        \* the clone it has made of it, or NoRef
    xform,       \* the Transform of the coordinate program, or Failed
    answer,      \* the last call it made, with what the call returned
    held,        \* the Points the geometry program holds references to
    rect1,       \* the two Rectangles of the collision program
    rect2

lifecycleVars == <<closed, destroyed, trans, items, canvas, nextId,
                   swin, sid, config, geom>>

eventVars == <<mouseX, mouseY, mouseXright, mouseYright, mousePressed,
               mouseRtPressed, keys, lastKey>>

cloneVars == <<heap, orig, copy>>

calcVars == <<xform, answer>>

geoVars == <<held, rect1, rect2>>

vars == <<lifecycleVars, eventVars, pc, clock, pressSeen, cloneVars, calcVars,
          geoVars>>

----------------------------------------------------------------------------
(* Bounds of the model *)

\* canvas items the program creates in all, over both windows
MaxId == 2
\* edits made to the shapes in all: unit moves away from where a shape was
\* built, and shapes whose config differs from the one they were built with
MaxEdits == 1
\* events one pump delivers
MaxBatch == 2

----------------------------------------------------------------------------
(* The objects of the scenario *)

Windows == {"W1", "W2"}
Shapes == {"rect", "rrect"}

\* a window one pixel wide, which the user never closes
Narrow == "W0"
GraphWins == Windows \cup {Narrow}

\* the shapes that are only configured
Plain == {"line", "text", "point"}
Objects == Shapes \cup Plain

Kind == [s \in Objects |->
            CASE s = "rect" -> "Rectangle"
              [] s = "rrect" -> "RoundedRectangle"
              [] s = "text" -> "Text"
              [] s = "point" -> "Point"
              [] OTHER -> "Line"]

\* GraphWin(title, width, height, autoflush): the constructor's arguments
Width == [w \in GraphWins |->
             CASE w = "W1" -> 5 [] w = Narrow -> 1 [] OTHER -> 3]
Height == [w \in GraphWins |-> IF w = "W1" THEN 5 ELSE 3]
Autoflush == [w \in GraphWins |-> w = "W1"]

\* bind_all binds the key events of the whole application: the bindings of
\* the window constructed last, W1, replace those of the window before it
KeyWin == "W1"

NoWin == "None"
NoId == 0
\* None, as the value of mouseX, mouseY, mouseXright, mouseYright
NoPixel == -1
\* None, as the value a query returns
None == [kind |-> "None"]
\* None, as a reference to a Python object
NoRef == 0
\* no call made yet
NoAnswer == [op |-> "none"]
\* no blocking call is in progress
Idle == [op |-> "idle", w |-> NoWin]
NoTrans == [none |-> TRUE]
NoErr == ""

OBJ_ALREADY_DRAWN == "Object currently drawn"
UNSUPPORTED_METHOD == "Object doesn't support operation"
BAD_OPTION == "Illegal option value"
CantDrawClosed == "Can't draw to closed window"
WindowIsClosed == "window is closed"
ZeroDivisionError == "ZeroDivisionError"
ValueError == "ValueError"
TclError == "TclError"
KeyError == "KeyError"
GetMouseClosed == "getMouse in closed window"
CheckMouseClosed == "checkMouse in closed window"
GetKeyClosed == "getKey in closed window"
CheckKeyClosed == "checkKey in closed window"

\* a Python number n / d; an int has d = 1
Num(n, d) == <<n, d>>

DEFAULT_CONFIG == [fill |-> "", activefill |-> "", outline |-> "#000000",
                   width |-> 1, arrow |-> "none", text |-> "",
                   justify |-> "center",
                   font |-> <<"helvetica", Num(12, 1), "normal">>,
                   smooth |-> FALSE]

\* the options list each class hands to GraphicsObject.__init__
Options(kind) ==
    CASE kind = "Line" -> {"arrow", "fill", "width"}
      [] kind = "Text" -> {"justify", "fill", "text", "font"}
      [] kind = "Point" -> {"outline"}
      [] kind = "Polygon" -> {"outline", "width", "fill", "activefill", "smooth"}
      [] OTHER -> {"outline", "width", "fill", "activefill"}

\* Text(p, text): the text the Text is constructed with
InitText == "hi"

\* GraphicsObject.__init__: the config dictionary; Line.__init__ and
\* Text.__init__ then set fill, Text.__init__ sets text
InitConfig(kind) ==
    [o \in Options(kind) |->
        IF kind \in {"Line", "Text"} /\ o = "fill" THEN DEFAULT_CONFIG.outline
        ELSE IF kind = "Text" /\ o = "text" THEN InitText
        ELSE DEFAULT_CONFIG[o]]

\* the points each shape is constructed from
InitGeom == [s \in Objects |->
                CASE s = "rect" -> [p1 |-> <<1, 1>>, p2 |-> <<3, 2>>]
                  [] s = "rrect" -> [p1 |-> <<0, 0>>, p2 |-> <<4, 4>>]
                  [] s = "text" -> [anchor |-> <<2, 1>>]
                  [] s = "point" -> [x |-> 1, y |-> 2]
                  [] OTHER -> [p1 |-> <<0, 2>>, p2 |-> <<2, 0>>]]

\* RoundedRectangle(point1, point2, radius)
Radius == [s \in Objects |-> 1]

----------------------------------------------------------------------------
(* Transform *)

\* Transform.__init__: xscale = xspan / (w - 1), yscale = yspan / (h - 1),
\* kept as the exact fractions xspan / w1 and yspan / h1
Transform(w, h, xlow, ylow, xhigh, yhigh) ==
    [xbase |-> xlow, ybase |-> yhigh,
     xspan |-> xhigh - xlow, yspan |-> yhigh - ylow,
     w1 |-> w - 1, h1 |-> h - 1]

\* Transform.__init__ raises ZeroDivisionError: float(w - 1) or float(h - 1)
\* is 0.0
TransformRaises(w, h) == w - 1 = 0 \/ h - 1 = 0

\* the Transform constructor did not return
Failed == [failed |-> "ZeroDivisionError"]

\* Transform(w, h, xlow, ylow, xhigh, yhigh), as the caller sees it
Transform_init(w, h, xlow, ylow, xhigh, yhigh) ==
    IF TransformRaises(w, h) THEN Failed
    ELSE Transform(w, h, xlow, ylow, xhigh, yhigh)

\* int(n / d) for d # 0: Python's int() truncates toward zero
TruncDiv(n, d) ==
    LET an == IF n < 0 THEN -n ELSE n
        ad == IF d < 0 THEN -d ELSE d
        q == an \div ad
    IN  IF (n < 0) # (d < 0) THEN -q ELSE q

\* Transform.screen raises ZeroDivisionError exactly when a scale is 0
ScreenRaises(t) == t.xspan = 0 \/ t.yspan = 0

\* Transform.screen for the numbers x = qx[1] / qx[2], y = qy[1] / qy[2]:
\* int(xs + 0.5), int(ys + 0.5)
screenQ(t, qx, qy) ==
    << TruncDiv(2 * (qx[1] - t.xbase * qx[2]) * t.w1 + qx[2] * t.xspan,
                2 * qx[2] * t.xspan),
       TruncDiv(2 * (t.ybase * qy[2] - qy[1]) * t.h1 + qy[2] * t.yspan,
                2 * qy[2] * t.yspan) >>

\* Transform.screen for whole numbers
screen(t, x, y) == screenQ(t, <<x, 1>>, <<y, 1>>)

----------------------------------------------------------------------------
(* The frame: the program state an operation works on, with the error it  *)
(* has raised (err), the value of its last canvas call (ret), the canvas   *)
(* calls it has made (calls), its pump count and its inputs: the pumps at  *)
(* which the windows are closed (sched), the events its pumps deliver      *)
(* (events) and Tk's answer to the id None (strict).                       *)

Frame(sched, strict) ==
    [closed |-> closed, destroyed |-> destroyed, trans |-> trans,
     items |-> items, canvas |-> canvas, nextId |-> nextId,
     swin |-> swin, sid |-> sid, config |-> config, geom |-> geom,
     calls |-> <<>>, err |-> NoErr, ret |-> NoId, pumps |-> 0,
     events |-> <<>>, sched |-> sched, strict |-> strict]

Raise(st, e) == [st EXCEPT !.err = e]

Log(st, fn, w, id, args) ==
    [st EXCEPT !.calls = Append(@, [fn |-> fn, w |-> w, id |-> id, args |-> args])]

RECURSIVE update(_), CloseAll(_, _), close(_, _), DeliverAll(_, _)

\* GraphWin.__autoflush
autoflush(st, w) == IF Autoflush[w] THEN update(st) ELSE st

\* faulty variant of close: no early return for a window already closed
close_NoGuard(st, w) ==
    autoflush([st EXCEPT !.closed[w] = TRUE,
                         !.destroyed[w] = @ + 1,
                         !.canvas[w] = {}], w)

\* GraphWin.close; master.destroy() destroys the canvas and its items
close(st, w) ==
    IF st.closed[w] THEN st
    ELSE autoflush([st EXCEPT !.closed[w] = TRUE,
                              !.destroyed[w] = @ + 1,
                              !.canvas[w] = {}], w)

\* the WM_DELETE_WINDOW callbacks of one pump, one window after the other
CloseAll(st, ws) ==
    IF ws = {} THEN st
    ELSE LET w == CHOOSE x \in ws : TRUE
         IN  CloseAll(close(st, w), ws \ {w})

\* GraphWin._onClick; no _mouseCallback is ever installed
_onClick(st, w, x, y) ==
    [st EXCEPT !.mousePressed[w] = TRUE, !.mouseX[w] = x, !.mouseY[w] = y]

\* GraphWin._onRtClick
_onRtClick(st, w, x, y) ==
    [st EXCEPT !.mouseRtPressed[w] = TRUE,
               !.mouseXright[w] = x, !.mouseYright[w] = y]

\* GraphWin._releaseClick
_releaseClick(st, w) == [st EXCEPT !.mousePressed[w] = FALSE]

\* GraphWin._releaseRtClick
_releaseRtClick(st, w) == [st EXCEPT !.mouseRtPressed[w] = FALSE]

\* GraphWin._onKey
_onKey(st, w, k) == [st EXCEPT !.lastKey[w] = k]

\* GraphWin.keyPressHandler
keyPressHandler(st, w, k) == _onKey([st EXCEPT !.keys[w] = @ \cup {k}], w, k)

\* faulty variant of keyReleaseHandler: lastKey is left as it is
keyReleaseHandler_KeepsLast(st, w, k) ==
    IF k \in st.keys[w] THEN [st EXCEPT !.keys[w] = @ \ {k}]
    ELSE [st EXCEPT !.cberr = Append(@, KeyError)]

\* GraphWin.keyReleaseHandler: set.remove raises KeyError for a key that is
\* not in the set, before lastKey is assigned; Tk reports the exception of a
\* callback and goes on
keyReleaseHandler(st, w, k) ==
    IF k \in st.keys[w] THEN [st EXCEPT !.keys[w] = @ \ {k}, !.lastKey[w] = ""]
    ELSE [st EXCEPT !.cberr = Append(@, KeyError)]

\* an event of the toolkit: its type, the window it is for, the pixel of a
\* button press, the name of a key
Event(type, w, x, y, k) == [type |-> type, w |-> w, x |-> x, y |-> y, k |-> k]

\* Tk has the event to dispatch: the canvas of a closed window is destroyed
\* and gets no button event, a destroyed window cannot be closed again, and
\* the key bindings are bind_all bindings, which run while any window is
\* left to have the focus
Deliverable(st, e) ==
    IF e.type \in {"KeyPress", "KeyRelease"}
    THEN \E w \in Windows : ~st.closed[w]
    ELSE ~st.closed[e.w]

\* the callback bound to the event
Callback(st, e) ==
    CASE e.type = "WM_DELETE_WINDOW" -> close(st, e.w)
      [] e.type = "Button-1" -> _onClick(st, e.w, e.x, e.y)
      [] e.type = "ButtonRelease-1" -> _releaseClick(st, e.w)
      [] e.type = "Button-3" -> _onRtClick(st, e.w, e.x, e.y)
      [] e.type = "ButtonRelease-3" -> _releaseRtClick(st, e.w)
      [] e.type = "KeyPress" -> keyPressHandler(st, KeyWin, e.k)
      [] e.type = "KeyRelease" -> keyReleaseHandler(st, KeyWin, e.k)

\* Tk dispatches the event; the frame notes the events dispatched
Deliver(st, e) ==
    IF Deliverable(st, e)
    THEN Callback([st EXCEPT !.delivered = Append(@, e)], e)
    ELSE st

\* the callbacks of one pump, in the order of the events
DeliverAll(st, es) ==
    IF es = <<>> THEN st ELSE DeliverAll(Deliver(st, Head(es)), Tail(es))

\* _root.update(): Tk runs the callbacks that are due at this pump
update(st) ==
    LET n == st.pumps + 1
        st0 == [st EXCEPT !.pumps = n]
        st1 == IF n <= Len(st.events) THEN DeliverAll(st0, st.events[n])
               ELSE st0
    IN  CloseAll(st1, {w \in Windows : st.sched[w] = n})

----------------------------------------------------------------------------
(* The Tk canvas.  Ids are handed out in increasing order and never reused. *)
(* A call on a destroyed canvas raises TclError.  What Tk does when the id  *)
(* it is given is None is the toolkit's business: the call is either a      *)
(* no-op or a TclError (input strict).                                      *)

\* Canvas.create_rectangle / create_line / create_polygon
create(st, w, prim, coords, options) ==
    IF st.closed[w] THEN Raise(st, TclError)
    ELSE LET id == st.nextId[w]
         IN  Log([st EXCEPT !.canvas[w] = @ \cup {id},
                            !.nextId[w] = id + 1,
                            !.ret = id],
                 "create", w, id,
                 [prim |-> prim, coords |-> coords, options |-> options])

\* Canvas.delete
delete(st, w, id) ==
    IF st.closed[w] \/ (id = NoId /\ st.strict) THEN Raise(st, TclError)
    ELSE Log([st EXCEPT !.canvas[w] = @ \ {id}], "delete", w, id, <<>>)

\* Canvas.move
canvasMove(st, w, id, x, y) ==
    IF st.closed[w] \/ (id = NoId /\ st.strict) THEN Raise(st, TclError)
    ELSE Log(st, "move", w, id, <<x, y>>)

\* Canvas.itemconfig
itemconfig(st, w, id, options) ==
    IF st.closed[w] \/ (id = NoId /\ st.strict) THEN Raise(st, TclError)
    ELSE Log(st, "itemconfig", w, id, options)

----------------------------------------------------------------------------
(* GraphWin *)

\* GraphWin.isClosed
isClosed(st, w) == st.closed[w]

\* GraphWin.toScreen raises ZeroDivisionError in Transform.screen
toScreenRaises(st, w) == st.trans[w] # NoTrans /\ ScreenRaises(st.trans[w])

\* GraphWin.toScreen
toScreen(st, w, x, y) ==
    IF st.trans[w] # NoTrans THEN screen(st.trans[w], x, y) ELSE <<x, y>>

\* faulty variant of addItem: the item is put at the front of the list
addItem_Front(st, w, s) == [st EXCEPT !.items[w] = <<s>> \o @]

\* GraphWin.addItem
addItem(st, w, s) == [st EXCEPT !.items[w] = Append(@, s)]

\* list.remove: the sequence without its first occurrence of s
RECURSIVE Remove(_, _)
Remove(seq, s) ==
    IF seq = <<>> THEN <<>>
    ELSE IF Head(seq) = s THEN Tail(seq)
    ELSE <<Head(seq)>> \o Remove(Tail(seq), s)

InSeq(seq, s) == \E i \in 1..Len(seq) : seq[i] = s

\* faulty variant of delItem: the registry keeps the item
delItem_Keeps(st, w, s) == st

\* GraphWin.delItem: list.remove raises ValueError when s is not in the list
delItem(st, w, s) ==
    IF InSeq(st.items[w], s) THEN [st EXCEPT !.items[w] = Remove(@, s)]
    ELSE Raise(st, ValueError)

----------------------------------------------------------------------------
(* GraphicsObject and its subclasses *)

\* the 20 points of a rounded outline, as RoundedRectangle.__init__ lists them
Outline(x1, y1, x2, y2, r) ==
    << x1 + r, y1,  x1 + r, y1,  x2 - r, y1,  x2 - r, y1,  x2, y1,
       x2, y1 + r,  x2, y1 + r,  x2, y2 - r,  x2, y2 - r,  x2, y2,
       x2 - r, y2,  x2 - r, y2,  x1 + r, y2,  x1 + r, y2,  x1, y2,
       x1, y2 - r,  x1, y2 - r,  x1, y1 + r,  x1, y1 + r,  x1, y1 >>

\* RoundedRectangle.__init__: the outline, computed once from the corners
RoundedPoints(s) ==
    LET x1 == InitGeom[s].p1[1]
        y1 == InitGeom[s].p1[2]
        x2 == InitGeom[s].p2[1]
        y2 == InitGeom[s].p2[2]
        r == Radius[s]
    IN  Outline(x1, y1, x2, y2, r)

\* Rectangle._draw: the second corner is projected from (point2.y, point2.y)
Rectangle_draw(st, s, w) ==
    IF toScreenRaises(st, w) THEN Raise(st, ZeroDivisionError)
    ELSE LET g == st.geom[s]
             c1 == toScreen(st, w, g.p1[1], g.p1[2])
             c2 == toScreen(st, w, g.p2[2], g.p2[2])
         IN  create(st, w, "rectangle", c1 \o c2, st.config[s])

\* Line._draw
Line_draw(st, s, w) ==
    IF toScreenRaises(st, w) THEN Raise(st, ZeroDivisionError)
    ELSE LET g == st.geom[s]
             c1 == toScreen(st, w, g.p1[1], g.p1[2])
             c2 == toScreen(st, w, g.p2[1], g.p2[2])
         IN  create(st, w, "line", c1 \o c2, st.config[s])

\* RoundedRectangle._draw: the stored outline, not projected
RoundedRectangle_draw(st, s, w) ==
    create(st, w, "polygon", RoundedPoints(s), st.config[s])

\* Text._draw
Text_draw(st, s, w) ==
    IF toScreenRaises(st, w) THEN Raise(st, ZeroDivisionError)
    ELSE LET p == st.geom[s].anchor
         IN  create(st, w, "text", toScreen(st, w, p[1], p[2]), st.config[s])

\* Point._draw
Point_draw(st, s, w) ==
    IF toScreenRaises(st, w) THEN Raise(st, ZeroDivisionError)
    ELSE LET c == toScreen(st, w, st.geom[s].x, st.geom[s].y)
         IN  create(st, w, "rectangle", <<c[1], c[2], c[1] + 1, c[2] + 1>>,
                    st.config[s])

\* self._draw(window, self.__config), dispatched on the class
_draw(st, s, w) ==
    CASE Kind[s] = "Rectangle" -> Rectangle_draw(st, s, w)
      [] Kind[s] = "RoundedRectangle" -> RoundedRectangle_draw(st, s, w)
      [] Kind[s] = "Text" -> Text_draw(st, s, w)
      [] Kind[s] = "Point" -> Point_draw(st, s, w)
      [] OTHER -> Line_draw(st, s, w)

\* faulty variant of draw: only a second draw into the same window is refused
draw_SameWindowOnly(st, s, w) ==
    IF st.err # NoErr THEN st
    ELSE IF st.swin[s] = w /\ ~isClosed(st, st.swin[s])
    THEN Raise(st, OBJ_ALREADY_DRAWN)
    ELSE IF isClosed(st, w) THEN Raise(st, CantDrawClosed)
    ELSE LET st1 == [st EXCEPT !.swin[s] = w]
             st2 == _draw(st1, s, w)
         IN  IF st2.err # NoErr THEN st2
             ELSE LET st3 == addItem([st2 EXCEPT !.sid[s] = st2.ret], w, s)
                  IN  IF Autoflush[w] THEN update(st3) ELSE st3

\* faulty variant of draw: the target window is not checked for closure
draw_NoClosedCheck(st, s, w) ==
    IF st.err # NoErr THEN st
    ELSE IF st.swin[s] # NoWin /\ ~isClosed(st, st.swin[s])
    THEN Raise(st, OBJ_ALREADY_DRAWN)
    ELSE LET st1 == [st EXCEPT !.swin[s] = w]
             st2 == _draw(st1, s, w)
         IN  IF st2.err # NoErr THEN st2
             ELSE LET st3 == addItem([st2 EXCEPT !.sid[s] = st2.ret], w, s)
                  IN  IF Autoflush[w] THEN update(st3) ELSE st3

\* GraphicsObject.draw
draw(st, s, w) ==
    IF st.err # NoErr THEN st
    ELSE IF st.swin[s] # NoWin /\ ~isClosed(st, st.swin[s])
    THEN Raise(st, OBJ_ALREADY_DRAWN)
    ELSE IF isClosed(st, w) THEN Raise(st, CantDrawClosed)
    ELSE LET st1 == [st EXCEPT !.swin[s] = w]
             st2 == _draw(st1, s, w)
         IN  IF st2.err # NoErr THEN st2
             ELSE LET st3 == addItem([st2 EXCEPT !.sid[s] = st2.ret], w, s)
                  IN  IF Autoflush[w] THEN update(st3) ELSE st3

\* faulty variant of undraw: no early return for a shape that is not drawn
undraw_NoGuard(st, s) ==
    IF st.err # NoErr THEN st
    ELSE IF st.swin[s] = NoWin THEN Raise(st, ValueError)
    ELSE LET w == st.swin[s]
             st1 == IF isClosed(st, w) THEN st ELSE delete(st, w, st.sid[s])
             st2 == IF isClosed(st, w) \/ st1.err # NoErr THEN st1
                    ELSE delItem(st1, w, s)
             st3 == IF isClosed(st, w) \/ st2.err # NoErr \/ ~Autoflush[w]
                    THEN st2 ELSE update(st2)
         IN  IF st3.err # NoErr THEN st3
             ELSE [st3 EXCEPT !.swin[s] = NoWin, !.sid[s] = NoId]

\* GraphicsObject.undraw
undraw(st, s) ==
    IF st.err # NoErr \/ st.swin[s] = NoWin THEN st
    ELSE LET w == st.swin[s]
             st1 == IF isClosed(st, w) THEN st ELSE delete(st, w, st.sid[s])
             st2 == IF isClosed(st, w) \/ st1.err # NoErr THEN st1
                    ELSE delItem(st1, w, s)
             st3 == IF isClosed(st, w) \/ st2.err # NoErr \/ ~Autoflush[w]
                    THEN st2 ELSE update(st2)
         IN  IF st3.err # NoErr THEN st3
             ELSE [st3 EXCEPT !.swin[s] = NoWin, !.sid[s] = NoId]

\* GraphicsObject.redraw
redraw(st, s) ==
    IF st.err # NoErr \/ st.swin[s] = NoWin THEN st
    ELSE LET w == st.swin[s]
             st1 == IF isClosed(st, w) THEN st ELSE delete(st, w, st.sid[s])
             st2 == IF st1.err # NoErr THEN st1 ELSE _draw(st1, s, w)
         IN  IF st2.err # NoErr THEN st2
             ELSE [st2 EXCEPT !.sid[s] = st2.ret]

\* _BBox._move
BBox_move(st, s, dx, dy) ==
    [st EXCEPT !.geom[s] = [p1 |-> <<@.p1[1] + dx, @.p1[2] + dy>>,
                            p2 |-> <<@.p2[1] + dx, @.p2[2] + dy>>]]

\* GraphicsObject.move; the canvas delta dx / xscale is the fraction
\* (dx * w1) / xspan, passed on as <<numerator, denominator>>
move(st, s, dx, dy) ==
    LET st1 == BBox_move(st, s, dx, dy)
        w == st1.swin[s]
    IN  IF w = NoWin \/ isClosed(st1, w) THEN st1
        ELSE LET t == st1.trans[w]
             IN  IF t # NoTrans /\ (t.xspan = 0 \/ t.yspan = 0)
                 THEN Raise(st1, ZeroDivisionError)
                 ELSE LET x == IF t # NoTrans THEN <<dx * t.w1, t.xspan>>
                               ELSE <<dx, 1>>
                          y == IF t # NoTrans THEN <<(-dy) * t.h1, t.yspan>>
                               ELSE <<dy, 1>>
                          st2 == canvasMove(st1, w, st1.sid[s], x, y)
                      IN  IF st2.err # NoErr \/ ~Autoflush[w] THEN st2
                          ELSE update(st2)

\* faulty variant of _reconfig: the option is not checked, and the
\* assignment adds it to the dictionary
_reconfig_NoCheck(st, s, option, setting) ==
    LET st1 == [st EXCEPT !.config[s] =
                   [o \in DOMAIN @ \cup {option} |->
                       IF o = option THEN setting ELSE @[o]]]
        w == st1.swin[s]
    IN  IF w = NoWin \/ isClosed(st1, w) THEN st1
        ELSE LET st2 == itemconfig(st1, w, st1.sid[s], st1.config[s])
             IN  IF st2.err # NoErr \/ ~Autoflush[w] THEN st2
                 ELSE update(st2)

\* GraphicsObject._reconfig
_reconfig(st, s, option, setting) ==
    IF option \notin DOMAIN st.config[s] THEN Raise(st, UNSUPPORTED_METHOD)
    ELSE LET st1 == [st EXCEPT !.config[s][option] = setting]
             w == st1.swin[s]
         IN  IF w = NoWin \/ isClosed(st1, w) THEN st1
             ELSE LET st2 == itemconfig(st1, w, st1.sid[s], st1.config[s])
                  IN  IF st2.err # NoErr \/ ~Autoflush[w] THEN st2
                      ELSE update(st2)

\* Line.arrow, read
Line_arrow(st, s) == st.config[s].arrow

\* faulty variant of the Line.arrow setter: the value is not checked
Line_arrow_set_NoCheck(st, s, option) == _reconfig(st, s, "arrow", option)

\* Line.arrow, assigned
Line_arrow_set(st, s, option) ==
    IF option \notin {"first", "last", "both", "none"} THEN Raise(st, BAD_OPTION)
    ELSE _reconfig(st, s, "arrow", option)

\* Text.setFace
setFace(st, s, face) ==
    IF face \in {"helvetica", "arial", "courier", "times roman"}
    THEN LET font == st.config[s].font
         IN  _reconfig(st, s, "font", <<face, font[2], font[3]>>)
    ELSE Raise(st, BAD_OPTION)

\* Text.setSize: 5 <= size <= 36, for the number size = n / d
setSize(st, s, size) ==
    IF 5 * size[2] <= size[1] /\ size[1] <= 36 * size[2]
    THEN LET font == st.config[s].font
         IN  _reconfig(st, s, "font", <<font[1], size, font[3]>>)
    ELSE Raise(st, BAD_OPTION)

\* Text.setStyle
setStyle(st, s, style) ==
    IF style \in {"bold", "normal", "italic", "bold italic"}
    THEN LET font == st.config[s].font
         IN  _reconfig(st, s, "font", <<font[1], font[2], style>>)
    ELSE Raise(st, BAD_OPTION)

----------------------------------------------------------------------------
(* GraphWin operations *)

\* GraphWin.redraw: the loop over a copy of items, then self.update()
RECURSIVE RedrawItems(_, _, _)
RedrawItems(st, w, list) ==
    IF list = <<>> \/ st.err # NoErr THEN st
    ELSE RedrawItems(draw(undraw(st, Head(list)), Head(list), w), w, Tail(list))

\* faulty variant of GraphWin.redraw: the loop runs over self.items itself,
\* which undraw and draw change under it, instead of over a copy
RECURSIVE RedrawLive(_, _, _)
RedrawLive(st, w, i) ==
    IF i > Len(st.items[w]) \/ st.err # NoErr THEN st
    ELSE RedrawLive(draw(undraw(st, st.items[w][i]), st.items[w][i], w), w, i + 1)

GraphWin_redraw_NoCopy(st, w) ==
    LET st1 == RedrawLive(st, w, 1)
    IN  IF st1.err # NoErr THEN st1 ELSE update(st1)

GraphWin_redraw(st, w) ==
    LET st1 == RedrawItems(st, w, st.items[w])
    IN  IF st1.err # NoErr THEN st1 ELSE update(st1)

\* faulty variant of setCoords: the Transform of a window one pixel wide or
\* high is built, installed and used
setCoords_NoRaise(st, w, x1, y1, x2, y2) ==
    GraphWin_redraw(
        [st EXCEPT !.trans[w] = Transform(Width[w], Height[w], x1, y1, x2, y2)],
        w)

\* GraphWin.setCoords; Transform.__init__ divides by float(w - 1), float(h - 1)
setCoords(st, w, x1, y1, x2, y2) ==
    IF TransformRaises(Width[w], Height[w]) THEN Raise(st, ZeroDivisionError)
    ELSE GraphWin_redraw(
            [st EXCEPT !.trans[w] = Transform(Width[w], Height[w], x1, y1, x2, y2)],
            w)

\* GraphWin.__checkOpen
checkOpen(st, w) == IF st.closed[w] THEN Raise(st, WindowIsClosed) ELSE st

\* GraphWin.setBackground
setBackground(st, w) ==
    LET st1 == checkOpen(st, w)
    IN  IF st1.err # NoErr THEN st1 ELSE autoflush(st1, w)

\* GraphWin.plot
plot(st, w, x, y) ==
    LET st1 == checkOpen(st, w)
    IN  IF st1.err # NoErr THEN st1
        ELSE IF toScreenRaises(st1, w) THEN Raise(st1, ZeroDivisionError)
        ELSE LET c == toScreen(st1, w, x, y)
                 st2 == create(st1, w, "line", <<c[1], c[2], c[1] + 1, c[2]>>,
                               [fill |-> "black"])
             IN  autoflush(st2, w)

\* GraphWin.plotPixel
plotPixel(st, w, x, y) ==
    LET st1 == checkOpen(st, w)
    IN  IF st1.err # NoErr THEN st1
        ELSE autoflush(create(st1, w, "line", <<x, y, x + 1, y>>,
                              [fill |-> "black"]), w)

\* GraphWin.flush: update_idletasks() runs no event callback
flush(st, w) == checkOpen(st, w)

----------------------------------------------------------------------------
(* The interaction queries.  A blocking call is an entry part, run once, and *)
(* a poll iteration, run while the call waits (field wait of the frame).     *)

\* Transform.world, as the exact fractions <<numerator, denominator>>
world(t, xs, ys) ==
    << <<xs * t.xspan + t.xbase * t.w1, t.w1>>,
       <<t.ybase * t.h1 - ys * t.yspan, t.h1>> >>

\* GraphWin.toWorld
toWorld(st, w, x, y) ==
    IF st.trans[w] # NoTrans THEN world(st.trans[w], x, y)
    ELSE << <<x, 1>>, <<y, 1>> >>

\* Point(x, y), as the value a query returns
Point(c) == [kind |-> "Point", x |-> c[1], y |-> c[2]]

\* a key name, as the value a query returns
Str(k) == [kind |-> "str", s |-> k]

\* Python's "not v" for v None or an int
Falsy(v) == v = NoPixel \/ v = 0

\* time.sleep(.1)
sleep(st) == [st EXCEPT !.slept = @ + 1]

\* getMouse: the lines after the loop
getMouse_return(st, w) ==
    [st EXCEPT !.val = Point(toWorld(st, w, st.mouseX[w], st.mouseY[w])),
               !.mouseX[w] = NoPixel, !.mouseY[w] = NoPixel, !.wait = FALSE]

\* getMouse: the loop test
getMouse_test(st, w) ==
    IF Falsy(st.mouseX[w]) \/ Falsy(st.mouseY[w]) THEN [st EXCEPT !.wait = TRUE]
    ELSE getMouse_return(st, w)

\* faulty variant of getMouse_enter: the stored click is not discarded
getMouse_enter_NoDiscard(st, w) == getMouse_test(update(st), w)

\* getMouse: the flush and the discard of the stored click, then the loop test
getMouse_enter(st, w) ==
    getMouse_test([update(st) EXCEPT !.mouseX[w] = NoPixel,
                                     !.mouseY[w] = NoPixel], w)

\* faulty variant of getMouse_poll: the closed flag is not looked at
getMouse_poll_NoClosedCheck(st, w) == getMouse_test(sleep(update(st)), w)

\* getMouse: one iteration of the loop, then the loop test
getMouse_poll(st, w) ==
    LET st1 == update(st)
    IN  IF isClosed(st1, w) THEN Raise([st1 EXCEPT !.wait = FALSE], GetMouseClosed)
        ELSE getMouse_test(sleep(st1), w)

\* getMouseRight: the lines after the loop
getMouseRight_return(st, w) ==
    [st EXCEPT !.val = Point(toWorld(st, w, st.mouseXright[w], st.mouseYright[w])),
               !.mouseXright[w] = NoPixel, !.mouseYright[w] = NoPixel,
               !.wait = FALSE]

\* getMouseRight: the loop test
getMouseRight_test(st, w) ==
    IF st.mouseXright[w] = NoPixel \/ st.mouseYright[w] = NoPixel
    THEN [st EXCEPT !.wait = TRUE]
    ELSE getMouseRight_return(st, w)

\* getMouseRight: the flush and the discard, then the loop test
getMouseRight_enter(st, w) ==
    getMouseRight_test([update(st) EXCEPT !.mouseXright[w] = NoPixel,
                                          !.mouseYright[w] = NoPixel], w)

\* getMouseRight: one iteration of the loop, then the loop test
getMouseRight_poll(st, w) ==
    LET st1 == update(st)
    IN  IF isClosed(st1, w) THEN Raise([st1 EXCEPT !.wait = FALSE], GetMouseClosed)
        ELSE getMouseRight_test(sleep(st1), w)

\* faulty variant of checkMouse: the stored click is returned and kept
checkMouse_NoClear(st, w) ==
    IF isClosed(st, w) THEN Raise(st, CheckMouseClosed)
    ELSE LET st1 == IF Autoflush[w] THEN update(st) ELSE st
         IN  IF st1.mouseX[w] # NoPixel /\ st1.mouseY[w] # NoPixel
             THEN [st1 EXCEPT !.val = Point(toWorld(st1, w, st1.mouseX[w],
                                                    st1.mouseY[w]))]
             ELSE [st1 EXCEPT !.val = None]

\* GraphWin.checkMouse
checkMouse(st, w) ==
    IF isClosed(st, w) THEN Raise(st, CheckMouseClosed)
    ELSE LET st1 == IF Autoflush[w] THEN update(st) ELSE st
         IN  IF st1.mouseX[w] # NoPixel /\ st1.mouseY[w] # NoPixel
             THEN [st1 EXCEPT !.val = Point(toWorld(st1, w, st1.mouseX[w],
                                                    st1.mouseY[w])),
                              !.mouseX[w] = NoPixel, !.mouseY[w] = NoPixel]
             ELSE [st1 EXCEPT !.val = None]

\* GraphWin.checkMouseRight
checkMouseRight(st, w) ==
    IF isClosed(st, w) THEN Raise(st, CheckMouseClosed)
    ELSE LET st1 == update(st)
         IN  IF st1.mouseXright[w] # NoPixel /\ st1.mouseYright[w] # NoPixel
             THEN [st1 EXCEPT !.val = Point(toWorld(st1, w, st1.mouseXright[w],
                                                    st1.mouseYright[w])),
                              !.mouseXright[w] = NoPixel,
                              !.mouseYright[w] = NoPixel]
             ELSE [st1 EXCEPT !.val = None]

\* getKey: the loop test and the lines after the loop
getKey_test(st, w) ==
    IF st.lastKey[w] = "" THEN [st EXCEPT !.wait = TRUE]
    ELSE [st EXCEPT !.val = Str(st.lastKey[w]), !.lastKey[w] = "",
                    !.wait = FALSE]

\* getKey: the reset of lastKey, then the loop test
getKey_enter(st, w) == getKey_test([st EXCEPT !.lastKey[w] = ""], w)

\* getKey: one iteration of the loop, then the loop test
getKey_poll(st, w) ==
    LET st1 == update(st)
    IN  IF isClosed(st1, w) THEN Raise([st1 EXCEPT !.wait = FALSE], GetKeyClosed)
        ELSE getKey_test(sleep(st1), w)

\* faulty variant of checkKey: the key is consumed, as getKey consumes it
checkKey_Consumes(st, w) ==
    IF isClosed(st, w) THEN Raise(st, CheckKeyClosed)
    ELSE LET st1 == IF Autoflush[w] THEN update(st) ELSE st
         IN  [st1 EXCEPT !.val = Str(st1.lastKey[w]), !.lastKey[w] = ""]

\* GraphWin.checkKey
checkKey(st, w) ==
    IF isClosed(st, w) THEN Raise(st, CheckKeyClosed)
    ELSE LET st1 == IF Autoflush[w] THEN update(st) ELSE st
         IN  [st1 EXCEPT !.val = Str(st1.lastKey[w])]

\* the module-level update(): one pump
pump(st) == update(st)

----------------------------------------------------------------------------
(* Inputs *)

NoSched == [w \in Windows |-> 0]

\* at which pump of the operation the user closes each window (0: not at
\* all), for an operation that makes n pumps when nobody closes a window;
\* a close adds the pump of its own __autoflush, so there is a pump n + 1
\* only when another window, one with autoflush, is closed before it
Scheds(n) == {f \in [Windows -> 0..(IF n = 0 THEN 0 ELSE n + 1)] :
                 \A w \in Windows :
                    /\ closed[w] => f[w] = 0
                    /\ f[w] = n + 1 =>
                          \E v \in Windows \ {w} : Autoflush[v] /\ f[v] \in 1..n}

\* Tk is only ever handed the id None by a shape that has a window and no id
Stricts == IF \E s \in Shapes : swin[s] # NoWin /\ sid[s] = NoId
           THEN BOOLEAN ELSE {FALSE}

\* the outcomes of operation Op from the current state, over its inputs
Run(Op(_)) ==
    {Op(Frame(sched, strict)) :
        sched \in Scheds(Op(Frame(NoSched, FALSE)).pumps), strict \in Stricts}

\* world displacements given to move
Deltas == {<<1, 1>>, <<-1, -1>>}

\* (option, setting) pairs given to _reconfig
Settings == {<<"fill", "red">>, <<"arrow", "last">>}

\* values assigned to Line.arrow
ArrowValues == {"none", "first", "last", "both", "up"}

\* values given to Text.setFace, setSize and setStyle; 11 / 2 is the float 5.5
Faces == {"helvetica", "arial", "courier", "times roman", "comic"}
Sizes == {Num(4, 1), Num(5, 1), Num(36, 1), Num(37, 1), Num(11, 2)}
Styles == {"bold", "normal", "italic", "bold italic", "underline"}

\* corner values given to setCoords; the last two have equal corners
GoodCoords == {<<0, 0, 4, 4>>}
BadCoords == {<<0, 0, 0, 4>>}
Coords == GoodCoords \cup BadCoords

\* the pixels the user clicks at, inside the 5 x 5 canvas of W1
Clicks == {<<0, 2>>, <<2, 1>>}

\* the key names the user types
Keys == {"a", "b"}

NoKey == ""

\* what the user does with the mouse in W1, and the closing of W1
MouseEvents ==
    {Event(t, "W1", c[1], c[2], NoKey) : t \in {"Button-1", "Button-3"}, c \in Clicks}
    \cup {Event(t, "W1", NoPixel, NoPixel, NoKey) :
             t \in {"ButtonRelease-1", "ButtonRelease-3"}}
    \cup {Event("WM_DELETE_WINDOW", "W1", NoPixel, NoPixel, NoKey)}

\* the events one pump can deliver, in their order
Batches(A) == UNION {[1..n -> A] : n \in 0..MaxBatch}

\* the frame of an operation whose first pump delivers the events of b: it
\* has the event state of the windows as well, the value the operation
\* returns (val), whether it is still waiting in a poll loop (wait), the
\* sleeps it has made (slept), the exceptions Tk has reported for its
\* callbacks (cberr) and the events Tk has dispatched (delivered)
FrameE(b) ==
    [closed |-> closed, destroyed |-> destroyed, trans |-> trans,
     items |-> items, canvas |-> canvas, nextId |-> nextId,
     swin |-> swin, sid |-> sid, config |-> config, geom |-> geom,
     mouseX |-> mouseX, mouseY |-> mouseY,
     mouseXright |-> mouseXright, mouseYright |-> mouseYright,
     mousePressed |-> mousePressed, mouseRtPressed |-> mouseRtPressed,
     keys |-> keys, lastKey |-> lastKey,
     calls |-> <<>>, err |-> NoErr, ret |-> NoId, pumps |-> 0,
     val |-> None, wait |-> FALSE, slept |-> 0, cberr |-> <<>>,
     events |-> <<b>>, delivered |-> <<>>,
     sched |-> NoSched, strict |-> FALSE]

\* the outcomes of operation Op from the current state, over the events of
\* alphabet A its pump can deliver
RunE(Op(_), A) == {Op(FrameE(b)) : b \in Batches(A)}

----------------------------------------------------------------------------
(* The state machine *)

InitWindows ==
    /\ closed = [w \in GraphWins |-> FALSE]
    /\ destroyed = [w \in GraphWins |-> 0]
    /\ trans = [w \in GraphWins |-> NoTrans]
    /\ items = [w \in GraphWins |-> <<>>]
    /\ canvas = [w \in GraphWins |-> {}]
    /\ nextId = [w \in GraphWins |-> 1]
    /\ swin = [s \in Objects |-> NoWin]
    /\ sid = [s \in Objects |-> NoId]
    /\ config = [s \in Objects |-> InitConfig(Kind[s])]
    /\ geom = InitGeom
    /\ mouseX = [w \in GraphWins |-> NoPixel]
    /\ mouseY = [w \in GraphWins |-> NoPixel]
    /\ mouseXright = [w \in GraphWins |-> NoPixel]
    /\ mouseYright = [w \in GraphWins |-> NoPixel]
    /\ mousePressed = [w \in GraphWins |-> FALSE]
    /\ mouseRtPressed = [w \in GraphWins |-> FALSE]
    /\ keys = [w \in GraphWins |-> {}]
    /\ lastKey = [w \in GraphWins |-> ""]
    /\ pc = Idle
    /\ clock = 0
    /\ pressSeen = FALSE

\* the geometry program holds nothing yet
InitGeo == held = {} /\ rect1 = NoRef /\ rect2 = NoRef

Init ==
    /\ InitWindows
    /\ heap = <<>> /\ orig = NoRef /\ copy = NoRef
    /\ xform = NoTrans /\ answer = NoAnswer
    /\ InitGeo

RECURSIVE SumOver(_, _)
SumOver(f, S) ==
    IF S = {} THEN 0
    ELSE LET x == CHOOSE y \in S : TRUE IN f[x] + SumOver(f, S \ {x})

\* how far the shape is from where it was built
Shift(st, s) == st.geom[s].p1[1] - InitGeom[s].p1[1]

Edits(st) ==
    SumOver([s \in Shapes |-> Shift(st, s)], Shapes)
    + Cardinality({s \in Objects : st.config[s] # InitConfig(Kind[s])})

Created(st) == SumOver([w \in GraphWins |-> st.nextId[w] - 1], GraphWins)

\* the operation has run from Frame(..) to st: its effects become the state
Commit(st) ==
    /\ Created(st) <= MaxId
    /\ \A s \in Shapes : Shift(st, s) >= 0
    /\ Edits(st) <= MaxEdits
    /\ closed' = st.closed
    /\ destroyed' = st.destroyed
    /\ trans' = st.trans
    /\ items' = st.items
    /\ canvas' = st.canvas
    /\ nextId' = st.nextId
    /\ swin' = st.swin
    /\ sid' = st.sid
    /\ config' = st.config
    /\ geom' = st.geom
    /\ UNCHANGED <<eventVars, pc, clock, pressSeen, cloneVars, calcVars, geoVars>>

Draw(s, w) ==
    \E st \in Run(LAMBDA f : draw(f, s, w)) : Commit(st)

Undraw(s) ==
    \E st \in Run(LAMBDA f : undraw(f, s)) : Commit(st)

Redraw(s) ==
    \E st \in Run(LAMBDA f : redraw(f, s)) : Commit(st)

Move(s) ==
    \E d \in Deltas :
        \E st \in Run(LAMBDA f : move(f, s, d[1], d[2])) : Commit(st)

Reconfig(s) ==
    \E o \in Settings :
        \E st \in Run(LAMBDA f : _reconfig(f, s, o[1], o[2])) :
            Commit(st)

SetCoords(w, cs) ==
    \E c \in cs :
        \E st \in Run(LAMBDA f : setCoords(f, w, c[1], c[2], c[3], c[4])) :
            Commit(st)

WinRedraw(w) ==
    \E st \in Run(LAMBDA f : GraphWin_redraw(f, w)) :
        Commit(st)

Close(w) ==
    \E st \in Run(LAMBDA f : close(f, w)) : Commit(st)

SetBackground(w) ==
    \E st \in Run(LAMBDA f : setBackground(f, w)) :
        Commit(st)

Plot(w) ==
    \E st \in Run(LAMBDA f : plot(f, w, 1, 1)) : Commit(st)

PlotPixel(w) ==
    \E st \in Run(LAMBDA f : plotPixel(f, w, 1, 1)) :
        Commit(st)

Flush(w) ==
    \E st \in Run(LAMBDA f : flush(f, w)) : Commit(st)

Next ==
    \/ \E s \in Shapes, w \in Windows : Draw(s, w)
    \/ \E s \in Shapes : Undraw(s)
    \/ \E s \in Shapes : Redraw(s)
    \/ \E s \in Shapes : Move(s)
    \/ \E s \in Shapes : Reconfig(s)
    \/ \E w \in Windows : Close(w)
    \/ SetCoords("W1", Coords)
    \/ WinRedraw("W1")

Spec == Init /\ [][Next]_vars

\* a program that also has the window one pixel wide
NextNarrow ==
    \/ \E s \in Shapes, w \in {Narrow, "W1"} : Draw(s, w)
    \/ \E s \in Shapes : Undraw(s)
    \/ \E s \in Shapes : Move(s)
    \/ \E w \in {Narrow, "W1"} : SetCoords(w, Coords)
    \/ \E w \in {Narrow, "W1"} : Close(w)

SpecNarrow == Init /\ [][NextNarrow]_vars

\* the same program when setCoords is only given distinct corners
NextGood ==
    \/ \E s \in Shapes, w \in Windows : Draw(s, w)
    \/ \E s \in Shapes : Undraw(s)
    \/ \E s \in Shapes : Redraw(s)
    \/ \E s \in Shapes : Move(s)
    \/ \E s \in Shapes : Reconfig(s)
    \/ \E w \in Windows : Close(w)
    \/ SetCoords("W1", GoodCoords)
    \/ WinRedraw("W1")

SpecGood == Init /\ [][NextGood]_vars

\* a program that draws, closes and uses the window-level operations
NextLive ==
    \/ \E s \in Shapes, w \in Windows : Draw(s, w)
    \/ \E s \in Shapes : Undraw(s)
    \/ \E w \in Windows : Close(w)
    \/ \E w \in Windows : SetCoords(w, Coords)
    \/ \E w \in Windows : SetBackground(w)
    \/ \E w \in Windows : Plot(w)
    \/ \E w \in Windows : PlotPixel(w)
    \/ \E w \in Windows : Flush(w)

SpecLive == Init /\ [][NextLive]_vars

SetArrow(s, vs) ==
    \E v \in vs :
        \E st \in Run(LAMBDA f : Line_arrow_set(f, s, v)) : Commit(st)

SetFace(s, vs) ==
    \E v \in vs :
        \E st \in Run(LAMBDA f : setFace(f, s, v)) : Commit(st)

SetSize(s, vs) ==
    \E v \in vs :
        \E st \in Run(LAMBDA f : setSize(f, s, v)) : Commit(st)

SetStyle(s, vs) ==
    \E v \in vs :
        \E st \in Run(LAMBDA f : setStyle(f, s, v)) : Commit(st)

\* a program that draws a Line and a Text and configures them
NextConfig ==
    \/ \E s \in {"line", "text"} : Draw(s, "W1")
    \/ \E s \in {"line", "text"} : Undraw(s)
    \/ \E s \in {"line", "point"} : Reconfig(s)
    \/ Close("W1")
    \/ SetArrow("line", {"both", "up"})
    \/ SetFace("text", {"arial", "comic"})
    \/ SetSize("text", {Num(11, 2), Num(37, 1)})
    \/ SetStyle("text", {"bold", "underline"})

SpecConfig == Init /\ [][NextConfig]_vars

----------------------------------------------------------------------------
(* The program that queries the user.  A blocking call takes one step to    *)
(* enter and one step for each iteration of its poll loop; while it waits,   *)
(* the program does nothing else.                                            *)

\* a KeyPress was dispatched to the callbacks of w during the operation
KeyPressed(st, w) ==
    w = KeyWin /\ \E i \in 1..Len(st.delivered) : st.delivered[i].type = "KeyPress"

\* the step of call (Idle for a call that does not block) has run from
\* FrameE(..) to st: its effects become the state
CommitE(st, call) ==
    /\ closed' = st.closed
    /\ destroyed' = st.destroyed
    /\ trans' = st.trans
    /\ items' = st.items
    /\ canvas' = st.canvas
    /\ nextId' = st.nextId
    /\ swin' = st.swin
    /\ sid' = st.sid
    /\ config' = st.config
    /\ geom' = st.geom
    /\ mouseX' = st.mouseX
    /\ mouseY' = st.mouseY
    /\ mouseXright' = st.mouseXright
    /\ mouseYright' = st.mouseYright
    /\ mousePressed' = st.mousePressed
    /\ mouseRtPressed' = st.mouseRtPressed
    /\ keys' = st.keys
    /\ lastKey' = st.lastKey
    /\ pc' = IF st.wait THEN call ELSE Idle
    /\ clock' = (clock + st.slept) % 2
    /\ pressSeen' = /\ call.op = "getKey" /\ st.wait
                    /\ pc = call
                    /\ (pressSeen \/ KeyPressed(st, call.w))
    /\ UNCHANGED <<cloneVars, calcVars, geoVars>>

GetMouse(w, A) ==
    /\ pc = Idle
    /\ \E st \in RunE(LAMBDA f : getMouse_enter(f, w), A) :
        CommitE(st, [op |-> "getMouse", w |-> w])

GetMousePoll(A) ==
    /\ pc.op = "getMouse"
    /\ \E st \in RunE(LAMBDA f : getMouse_poll(f, pc.w), A) : CommitE(st, pc)

GetMouseRight(w, A) ==
    /\ pc = Idle
    /\ \E st \in RunE(LAMBDA f : getMouseRight_enter(f, w), A) :
        CommitE(st, [op |-> "getMouseRight", w |-> w])

GetMouseRightPoll(A) ==
    /\ pc.op = "getMouseRight"
    /\ \E st \in RunE(LAMBDA f : getMouseRight_poll(f, pc.w), A) :
        CommitE(st, pc)

GetKey(w, A) ==
    /\ pc = Idle
    /\ \E st \in RunE(LAMBDA f : getKey_enter(f, w), A) :
        CommitE(st, [op |-> "getKey", w |-> w])

GetKeyPoll(A) ==
    /\ pc.op = "getKey"
    /\ \E st \in RunE(LAMBDA f : getKey_poll(f, pc.w), A) : CommitE(st, pc)

CheckMouse(w, A) ==
    /\ pc = Idle
    /\ \E st \in RunE(LAMBDA f : checkMouse(f, w), A) : CommitE(st, Idle)

CheckMouseRight(w, A) ==
    /\ pc = Idle
    /\ \E st \in RunE(LAMBDA f : checkMouseRight(f, w), A) : CommitE(st, Idle)

CheckKey(w, A) ==
    /\ pc = Idle
    /\ \E st \in RunE(LAMBDA f : checkKey(f, w), A) : CommitE(st, Idle)

Pump(A) ==
    /\ pc = Idle
    /\ \E st \in RunE(LAMBDA f : pump(f), A) : CommitE(st, Idle)

SetCoordsE(w, A) ==
    /\ pc = Idle
    /\ \E c \in GoodCoords :
        \E st \in RunE(LAMBDA f : setCoords(f, w, c[1], c[2], c[3], c[4]), A) :
            CommitE(st, Idle)

\* a program that asks for clicks in W1 while the user works the mouse
NextMouse ==
    \/ GetMouse("W1", MouseEvents)
    \/ GetMousePoll(MouseEvents)
    \/ GetMouseRight("W1", MouseEvents)
    \/ GetMouseRightPoll(MouseEvents)
    \/ CheckMouse("W1", MouseEvents)
    \/ CheckMouseRight("W1", MouseEvents)
    \/ Pump(MouseEvents)
    \/ SetCoordsE("W1", MouseEvents)

SpecMouse == Init /\ [][NextMouse]_vars

\* the entry part of the blocking call op
enter(st, op, w) ==
    CASE op = "getMouse" -> getMouse_enter(st, w)
      [] op = "getMouseRight" -> getMouseRight_enter(st, w)
      [] op = "getKey" -> getKey_enter(st, w)

\* one iteration of the poll loop of the blocking call op
poll(st, op, w) ==
    CASE op = "getMouse" -> getMouse_poll(st, w)
      [] op = "getMouseRight" -> getMouseRight_poll(st, w)
      [] op = "getKey" -> getKey_poll(st, w)

\* GraphWin.close, called by the program
CloseE(w, A) ==
    /\ pc = Idle
    /\ \E st \in RunE(LAMBDA f : close(f, w), A) : CommitE(st, Idle)

\* one press of each button, one key, and the closing of the windows
CancelEvents ==
    {Event(t, "W1", 2, 1, NoKey) : t \in {"Button-1", "Button-3"}}
    \cup {Event("KeyPress", KeyWin, NoPixel, NoPixel, "a")}
    \cup {Event("WM_DELETE_WINDOW", w, NoPixel, NoPixel, NoKey) : w \in Windows}

\* a program that makes blocking calls on windows that are being closed
NextCancel ==
    \/ \E w \in Windows : GetMouse(w, CancelEvents)
    \/ GetMousePoll(CancelEvents)
    \/ \E w \in Windows : GetMouseRight(w, CancelEvents)
    \/ GetMouseRightPoll(CancelEvents)
    \/ \E w \in Windows : GetKey(w, CancelEvents)
    \/ GetKeyPoll(CancelEvents)
    \/ \E w \in Windows : CloseE(w, CancelEvents)

SpecCancel == Init /\ [][NextCancel]_vars

\* what the user does with the keyboard, and the closing of the windows
KeyEvents ==
    {Event(t, KeyWin, NoPixel, NoPixel, k) : t \in {"KeyPress", "KeyRelease"},
                                              k \in Keys}
    \cup {Event("WM_DELETE_WINDOW", w, NoPixel, NoPixel, NoKey) : w \in Windows}

\* a program that asks for keys while the user types
NextKeys ==
    \/ \E w \in Windows : GetKey(w, KeyEvents)
    \/ GetKeyPoll(KeyEvents)
    \/ \E w \in Windows : CheckKey(w, KeyEvents)
    \/ Pump(KeyEvents)

SpecKeys == Init /\ [][NextKeys]_vars

\* the same program; a call that waits goes on to its next poll iteration
SpecKeysFair == SpecKeys /\ WF_vars(GetKeyPoll(KeyEvents))

----------------------------------------------------------------------------
(* The Python objects of a program that clones a shape.  A shape is an       *)
(* object on the heap: it holds references to its Points and to its config   *)
(* dictionary, so that two shapes that share a Point or a dictionary see     *)
(* each other's changes.  The canvas calls that move and _reconfig make for  *)
(* a drawn shape change no Python object and are left out here.              *)

\* an object with every attribute unset
Blank == [class |-> "", window |-> NoRef, id |-> NoId, config |-> NoRef,
          x |-> 0, y |-> 0, point1 |-> NoRef, point2 |-> NoRef,
          points |-> <<>>, anchor |-> NoRef, position |-> NoRef,
          radius |-> 0, outline |-> <<>>, arc |-> <<>>, items |-> <<>>,
          d |-> <<>>, theta |-> 0, orig_points |-> <<>>, center |-> NoRef]

\* a new object: the heap with it (h) and the reference to it (r)
alloc(h, obj) == [h |-> Append(h, obj), r |-> Len(h) + 1]

\* dictionary[key] = value
dict_set(h, dict, key, value) == [h EXCEPT ![dict].d[key] = value]

\* GraphicsObject.__init__: a new config dictionary for the object
GraphicsObject_init(h, obj, options) ==
    LET dict == alloc(h, [Blank EXCEPT !.class = "dict",
                                       !.d = [k \in options |-> DEFAULT_CONFIG[k]]])
    IN  alloc(dict.h, [obj EXCEPT !.config = dict.r])

\* faulty variant of the config getter: the dictionary itself, not a copy
config_get_Shared(h, s) == [h |-> h, r |-> h[s].config]

\* GraphicsObject.config, read: self.__config.copy()
config_get(h, s) == alloc(h, h[h[s].config])

\* GraphicsObject.config, assigned
config_set(h, s, dict) == [h EXCEPT ![s].config = dict]

\* other.config = self.config, the last step of every clone method
CopyConfig(other, s) ==
    LET c == config_get(other.h, s)
    IN  [h |-> config_set(c.h, other.r, c.r), r |-> other.r]

\* Point.__init__
Point_init(h, x, y) ==
    GraphicsObject_init(h, [Blank EXCEPT !.class = "Point", !.x = x, !.y = y],
                        {"outline"})

\* Point.clone
Point_clone(h, p) == CopyConfig(Point_init(h, h[p].x, h[p].y), p)

\* _BBox.__init__: the corners are clones of the points given
BBox_init(h, obj, p1, p2, options) ==
    LET c1 == Point_clone(h, p1)
        c2 == Point_clone(c1.h, p2)
    IN  GraphicsObject_init(c2.h, [obj EXCEPT !.point1 = c1.r, !.point2 = c2.r],
                            options)

\* _BBox.point1 and _BBox.point2, read: clones of the corners
point1(h, s) == Point_clone(h, h[s].point1)
point2(h, s) == Point_clone(h, h[s].point2)

BoxOptions == {"outline", "width", "fill", "activefill"}

\* Rectangle.__init__, Oval.__init__
Box_init(h, class, p1, p2) ==
    BBox_init(h, [Blank EXCEPT !.class = class], p1, p2, BoxOptions)

\* Rectangle.clone, Oval.clone
Box_clone(h, s) ==
    LET a == point1(h, s)
        b == point2(a.h, s)
    IN  CopyConfig(Box_init(b.h, h[s].class, a.r, b.r), s)

\* RoundedRectangle.__init__
RoundedRectangle_init(h, p1, p2, radius) ==
    LET o == BBox_init(h, [Blank EXCEPT !.class = "RoundedRectangle",
                                        !.radius = radius], p1, p2, BoxOptions)
        c1 == o.h[o.h[o.r].point1]
        c2 == o.h[o.h[o.r].point2]
    IN  [h |-> [o.h EXCEPT ![o.r].outline = Outline(c1.x, c1.y, c2.x, c2.y, radius)],
         r |-> o.r]

\* RoundedRectangle.clone
RoundedRectangle_clone(h, s) ==
    LET a == point1(h, s)
        b == point2(a.h, s)
    IN  CopyConfig(RoundedRectangle_init(b.h, a.r, b.r, h[s].radius), s)

\* Arc.__init__
Arc_init(h, p1, p2, startAngle, rotation, style) ==
    BBox_init(h, [Blank EXCEPT !.class = "Arc",
                               !.arc = <<startAngle, rotation, style>>],
              p1, p2, BoxOptions)

\* Arc.clone
Arc_clone(h, s) ==
    LET a == point1(h, s)
        b == point2(a.h, s)
    IN  CopyConfig(Arc_init(b.h, a.r, b.r, h[s].arc[1], h[s].arc[2], h[s].arc[3]), s)

\* Circle.__init__: the corners are computed from the position given, and
\* the position object itself is kept
Circle_init(h, position, radius) ==
    LET a == Point_init(h, h[position].x - radius, h[position].y - radius)
        b == Point_init(a.h, h[position].x + radius, h[position].y + radius)
    IN  BBox_init(b.h, [Blank EXCEPT !.class = "Circle", !.position = position,
                                     !.radius = radius], a.r, b.r, BoxOptions)

\* Circle.clone
Circle_clone(h, s) == CopyConfig(Circle_init(h, h[s].position, h[s].radius), s)

\* Line.__init__
Line_init(h, p1, p2) ==
    LET o == BBox_init(h, [Blank EXCEPT !.class = "Line"], p1, p2,
                       {"arrow", "fill", "width"})
    IN  [h |-> dict_set(o.h, o.h[o.r].config, "fill", DEFAULT_CONFIG.outline),
         r |-> o.r]

\* Line.clone
Line_clone(h, s) ==
    LET a == point1(h, s)
        b == point2(a.h, s)
    IN  CopyConfig(Line_init(b.h, a.r, b.r), s)

\* list(map(Point.clone, args))
RECURSIVE ClonePoints(_, _)
ClonePoints(h, ps) ==
    IF ps = <<>> THEN [h |-> h, r |-> <<>>]
    ELSE LET c == Point_clone(h, Head(ps))
             rest == ClonePoints(c.h, Tail(ps))
         IN  [h |-> rest.h, r |-> <<c.r>> \o rest.r]

\* Polygon.__init__
Polygon_init(h, ps) ==
    LET c == ClonePoints(h, ps)
    IN  GraphicsObject_init(c.h, [Blank EXCEPT !.class = "Polygon",
                                               !.points = c.r],
                            {"outline", "width", "fill", "activefill", "smooth"})

\* Polygon.clone
Polygon_clone(h, s) == CopyConfig(Polygon_init(h, h[s].points), s)

\* Text.__init__
Text_init(h, p, text) ==
    LET o == GraphicsObject_init(h, [Blank EXCEPT !.class = "Text"],
                                 {"justify", "fill", "text", "font"})
        h1 == dict_set(o.h, o.h[o.r].config, "text", text)
        c == Point_clone(h1, p)
        h2 == [c.h EXCEPT ![o.r].anchor = c.r]
    IN  [h |-> dict_set(h2, h2[o.r].config, "fill", DEFAULT_CONFIG.outline),
         r |-> o.r]

\* Text.clone
Text_clone(h, s) ==
    CopyConfig(Text_init(h, h[s].anchor, h[h[s].config].d.text), s)

\* faulty variant of clone: a copy of the object as it is, window and id too
clone_Shallow(h, s) == alloc(h, h[s])

\* s.clone(), dispatched on the class
clone(h, s) ==
    CASE h[s].class = "Point" -> Point_clone(h, s)
      [] h[s].class \in {"Rectangle", "Oval"} -> Box_clone(h, s)
      [] h[s].class = "RoundedRectangle" -> RoundedRectangle_clone(h, s)
      [] h[s].class = "Arc" -> Arc_clone(h, s)
      [] h[s].class = "Circle" -> Circle_clone(h, s)
      [] h[s].class = "Line" -> Line_clone(h, s)
      [] h[s].class = "Polygon" -> Polygon_clone(h, s)
      [] h[s].class = "Text" -> Text_clone(h, s)

\* Point._move
Point_move(h, p, dx, dy) == [h EXCEPT ![p].x = @ + dx, ![p].y = @ + dy]

\* Polygon._move: p.move(dx, dy) for each of its points
RECURSIVE MovePoints(_, _, _, _)
MovePoints(h, ps, dx, dy) ==
    IF ps = <<>> THEN h
    ELSE MovePoints(Point_move(h, Head(ps), dx, dy), Tail(ps), dx, dy)

\* Polygon.points, read: clones of the vertices
points(h, s) == ClonePoints(h, h[s].points)

\* round(n / d) for d > 0: Python rounds a half to the even integer
Round(n, d) ==
    LET q == n \div d
        r == n - q * d
    IN  IF 2 * r < d THEN q
        ELSE IF 2 * r > d THEN q + 1
        ELSE IF q % 2 = 0 THEN q ELSE q + 1

RECURSIVE SumAttr(_, _, _)
SumAttr(h, ps, a) ==
    IF ps = <<>> THEN 0 ELSE h[Head(ps)][a] + SumAttr(h, Tail(ps), a)

\* RotatablePolygon.find_centroid: a new Point, computed from self.points
find_centroid(h, s) ==
    LET c == points(h, s)
    IN  Point_init(c.h, Round(SumAttr(c.h, c.r, "x"), Len(c.r)),
                        Round(SumAttr(c.h, c.r, "y"), Len(c.r)))

\* RotatablePolygon.__init__
RotatablePolygon_init(h, ps) ==
    LET c == ClonePoints(h, ps)
        o == GraphicsObject_init(c.h, [Blank EXCEPT !.class = "RotatablePolygon",
                                                    !.points = c.r],
                                 {"outline", "width", "fill", "activefill", "smooth"})
        orig_points == points(o.h, o.r)
        h1 == [orig_points.h EXCEPT ![o.r].theta = 0,
                                    ![o.r].orig_points = orig_points.r]
        cen == find_centroid(h1, o.r)
    IN  [h |-> [cen.h EXCEPT ![o.r].center = cen.r], r |-> o.r]

\* RotatablePolygon._move; the Point find_centroid returns is dropped
RotatablePolygon_move(h, s, dx, dy) ==
    LET h1 == MovePoints(h, h[s].points, dx, dy)
        h2 == MovePoints(h1, h1[s].orig_points, dx, dy)
    IN  find_centroid(h2, s).h

\* math.cos and math.sin of a multiple of 90 degrees
Cos(theta) == CASE theta = 0 -> 1 [] theta = 180 -> -1 [] OTHER -> 0
Sin(theta) == CASE theta = 90 -> 1 [] theta = 270 -> -1 [] OTHER -> 0

\* the loop of RotatablePolygon.rotate, from vertex i on; every
\* self.points is a new list of clones
RECURSIVE RotateLoop(_, _, _, _)
RotateLoop(h, s, about, i) ==
    IF i > Len(h[s].orig_points) THEN h
    ELSE LET theta == h[s].theta
             orig_x_diff == h[h[s].orig_points[i]].x - h[about].x
             orig_y_diff == h[h[s].orig_points[i]].y - h[about].x
             newx == orig_x_diff * Cos(theta) + orig_y_diff * Sin(theta)
             newy == orig_y_diff * Cos(theta) - orig_x_diff * Sin(theta)
             a == points(h, s)
             dx == newx - a.h[a.r[i]].x
             b == points(a.h, s)
             dy == newy - b.h[b.r[i]].y
             c == points(b.h, s)
         IN  RotateLoop(Point_move(c.h, c.r[i], dx + h[about].x, dy + h[about].y),
                        s, about, i + 1)

\* RotatablePolygon.rotate, for a polygon that is not drawn (redraw returns
\* at once); about is NoRef for None
rotate(h, s, degrees, about) ==
    LET pivot == IF about = NoRef THEN h[s].center ELSE about
        h1 == [h EXCEPT ![s].theta = (@ + degrees) % 360]
    IN  IF degrees # 0 THEN find_centroid(RotateLoop(h1, s, pivot, 1), s).h
        ELSE h1

\* _BBox.point1 and _BBox.point2, assigned: the Point given is kept
point1_set(h, s, p) == [h EXCEPT ![s].point1 = p]
point2_set(h, s, p) == [h EXCEPT ![s].point2 = p]

\* Text.getAnchor
getAnchor(h, s) == Point_clone(h, h[s].anchor)

\* RotatablePolygon.center, read and assigned
center(h, s) == Point_clone(h, h[s].center)
center_set(h, s, p) == [h EXCEPT ![s].center = p]

\* the heap without the objects made after the first n, which nothing
\* refers to any more
Collect(h, n) == SubSeq(h, 1, n)

\* GraphicsObject.move: self._move(dx, dy), dispatched on the class
GraphicsObject_move(h, s, dx, dy) ==
    CASE h[s].class = "Point" -> Point_move(h, s, dx, dy)
      [] h[s].class = "Polygon" -> MovePoints(h, h[s].points, dx, dy)
      [] h[s].class = "RotatablePolygon" -> RotatablePolygon_move(h, s, dx, dy)
      [] h[s].class = "Text" -> Point_move(h, h[s].anchor, dx, dy)
      [] OTHER -> Point_move(Point_move(h, h[s].point1, dx, dy),
                             h[s].point2, dx, dy)

\* GraphicsObject._reconfig: the assignment is made in the dictionary the
\* object holds
GraphicsObject_reconfig(h, s, option, setting) ==
    IF option \notin DOMAIN h[h[s].config].d THEN h
    ELSE dict_set(h, h[s].config, option, setting)

\* the coordinates of a Point
XY(h, p) == <<h[p].x, h[p].y>>

\* the world geometry of a shape: its point, corners, vertices or anchor
Geometry(h, s) ==
    CASE h[s].class = "Point" -> <<XY(h, s)>>
      [] h[s].class \in {"Polygon", "RotatablePolygon"} ->
            [i \in 1..Len(h[s].points) |-> XY(h, h[s].points[i])]
      [] h[s].class = "Text" -> <<XY(h, h[s].anchor)>>
      [] OTHER -> <<XY(h, h[s].point1), XY(h, h[s].point2)>>

\* the config of a shape
Config(h, s) == h[h[s].config].d

Variants == {"Point", "Rectangle", "RoundedRectangle", "Oval", "Arc",
             "Circle", "Line", "Polygon", "Text"}

\* the program constructs three Points and, from them, a shape of the class
Construct(class) ==
    LET a == Point_init(<<>>, 1, 1)
        b == Point_init(a.h, 3, 2)
        c == Point_init(b.h, 2, 3)
    IN  CASE class = "Point" -> a
          [] class \in {"Rectangle", "Oval"} -> Box_init(c.h, class, a.r, b.r)
          [] class = "RoundedRectangle" -> RoundedRectangle_init(c.h, a.r, b.r, 1)
          [] class = "Arc" -> Arc_init(c.h, a.r, b.r, 0, 90, "SECTOR")
          [] class = "Circle" -> Circle_init(c.h, a.r, 1)
          [] class = "Line" -> Line_init(c.h, a.r, b.r)
          [] class = "Polygon" -> Polygon_init(c.h, <<a.r, b.r, c.r>>)
          [] class = "RotatablePolygon" ->
                RotatablePolygon_init(c.h, <<a.r, b.r, c.r>>)
          [] class = "Text" -> Text_init(c.h, a.r, InitText)

\* the shape drawn into a new window: GraphicsObject.draw has stored the
\* window and the id, GraphWin.addItem has registered the shape
Drawn(o) ==
    LET win == alloc(o.h, [Blank EXCEPT !.class = "GraphWin", !.items = <<o.r>>])
    IN  [h |-> [win.h EXCEPT ![o.r].window = win.r, ![o.r].id = 1], r |-> o.r]

InitClone ==
    /\ InitWindows
    /\ xform = NoTrans /\ answer = NoAnswer
    /\ \E class \in Variants, attached \in BOOLEAN :
          LET o == IF attached THEN Drawn(Construct(class)) ELSE Construct(class)
          IN  heap = o.h /\ orig = o.r
    /\ copy = NoRef
    /\ InitGeo

\* the shape an action is about
Ref(which) == IF which = "orig" THEN orig ELSE copy

\* an option the class of the shape has
AnOption(h, s) == IF h[s].class = "Point" THEN "outline" ELSE "fill"

CloneShape ==
    /\ copy = NoRef
    /\ LET c == clone(heap, orig) IN heap' = c.h /\ copy' = c.r
    /\ UNCHANGED <<lifecycleVars, eventVars, pc, clock, pressSeen, orig, calcVars,
                   geoVars>>

MoveShape(which) ==
    /\ Ref(which) # NoRef
    /\ \E d \in Deltas :
          LET h == GraphicsObject_move(heap, Ref(which), d[1], d[2])
          IN  /\ Geometry(h, Ref(which))[1][1] \in 0..(MaxEdits + 1)
              /\ heap' = Collect(h, Len(heap))
    /\ UNCHANGED <<lifecycleVars, eventVars, pc, clock, pressSeen, orig, copy,
                   calcVars, geoVars>>

ReconfigShape(which) ==
    /\ Ref(which) # NoRef
    /\ heap' = GraphicsObject_reconfig(heap, Ref(which),
                                       AnOption(heap, Ref(which)), "red")
    /\ UNCHANGED <<lifecycleVars, eventVars, pc, clock, pressSeen, orig, copy,
                   calcVars, geoVars>>

NextClone ==
    \/ CloneShape
    \/ \E which \in {"orig", "copy"} : MoveShape(which)
    \/ \E which \in {"orig", "copy"} : ReconfigShape(which)

SpecClone == InitClone /\ [][NextClone]_vars

----------------------------------------------------------------------------
(* A program that constructs Transforms and calls screen and world.          *)

\* the arguments w, h, xlow, ylow, xhigh, yhigh the program constructs
\* Transforms with: unequal scales, corners below zero, a y axis that points
\* down, a window one pixel wide or high, and equal x corners
TransformArgs ==
    { <<5, 5, 0, 0, 3, 3>>, <<5, 3, 0, 0, 4, 4>>, <<3, 5, -2, -2, 2, 2>>,
      <<5, 5, 0, 4, 4, 0>>, <<1, 5, 0, 0, 4, 4>>, <<5, 1, 0, 0, 4, 4>>,
      <<5, 5, 1, 0, 1, 4>> }

\* the world coordinates and the pixels the program asks about
WorldPoints == -3..5
Pixels == -3..5

InitCalc ==
    /\ InitWindows
    /\ heap = <<>> /\ orig = NoRef /\ copy = NoRef
    /\ \E a \in TransformArgs :
          xform = Transform_init(a[1], a[2], a[3], a[4], a[5], a[6])
    /\ answer = NoAnswer
    /\ InitGeo

NewTransform ==
    /\ \E a \in TransformArgs :
          /\ xform' = Transform_init(a[1], a[2], a[3], a[4], a[5], a[6])
          /\ answer' = [op |-> "Transform", in |-> a]
    /\ UNCHANGED <<lifecycleVars, eventVars, pc, clock, pressSeen, cloneVars,
                   geoVars>>

CallScreen ==
    /\ xform # Failed
    /\ \E x \in WorldPoints, y \in WorldPoints :
          answer' = IF ScreenRaises(xform)
                    THEN [op |-> "screen", in |-> <<x, y>>, err |-> ZeroDivisionError]
                    ELSE [op |-> "screen", in |-> <<x, y>>,
                          out |-> screen(xform, x, y)]
    /\ UNCHANGED <<lifecycleVars, eventVars, pc, clock, pressSeen, cloneVars,
                   xform, geoVars>>

CallWorld ==
    /\ xform # Failed
    /\ \E xs \in Pixels, ys \in Pixels :
          answer' = [op |-> "world", in |-> <<xs, ys>>,
                     out |-> world(xform, xs, ys)]
    /\ UNCHANGED <<lifecycleVars, eventVars, pc, clock, pressSeen, cloneVars,
                   xform, geoVars>>

NextCalc ==
    \/ NewTransform
    \/ CallScreen
    \/ CallWorld

SpecCalc == InitCalc /\ [][NextCalc]_vars

----------------------------------------------------------------------------
(* A program that constructs two Rectangles and tests them for collision.   *)
(* The Points an accessor returns are temporaries: the test reads them and   *)
(* drops them, so the heap is after the test what it was before.             *)

\* the x and the y of the Point an accessor has just returned
X(c) == c.h[c.r].x
Y(c) == c.h[c.r].y

\* Rectangle.testCollision_RectVsRect
testCollision_RectVsRect(h, r1, r2) ==
    /\ X(point1(h, r1)) <= X(point2(h, r2))
    /\ X(point2(h, r1)) >= X(point1(h, r2))
    /\ Y(point1(h, r1)) <= Y(point2(h, r2))
    /\ Y(point2(h, r1)) >= Y(point1(h, r2))

\* the corners the program builds its Rectangles from
CornerPoints == {<<0, 0>>, <<1, 2>>, <<2, 1>>, <<3, 3>>}

\* Rectangle(Point(a), Point(b)) and Rectangle(Point(c), Point(d))
TwoRectangles(a, b, c, d) ==
    LET qa == Point_init(<<>>, a[1], a[2])
        qb == Point_init(qa.h, b[1], b[2])
        qc == Point_init(qb.h, c[1], c[2])
        qd == Point_init(qc.h, d[1], d[2])
        r1 == Box_init(qd.h, "Rectangle", qa.r, qb.r)
        r2 == Box_init(r1.h, "Rectangle", qc.r, qd.r)
    IN  [h |-> r2.h, r1 |-> r1.r, r2 |-> r2.r]

InitCollide ==
    /\ InitWindows
    /\ orig = NoRef /\ copy = NoRef /\ held = {}
    /\ xform = NoTrans /\ answer = NoAnswer
    /\ \E a \in CornerPoints, b \in CornerPoints,
          c \in CornerPoints, d \in CornerPoints :
          LET o == TwoRectangles(a, b, c, d)
          IN  heap = o.h /\ rect1 = o.r1 /\ rect2 = o.r2

\* the program asks whether one of its Rectangles collides with one of them
Collide ==
    /\ \E a \in {"rect1", "rect2"}, b \in {"rect1", "rect2"} :
          LET r1 == IF a = "rect1" THEN rect1 ELSE rect2
              r2 == IF b = "rect1" THEN rect1 ELSE rect2
          IN  answer' = [op |-> "testCollision_RectVsRect", in |-> <<a, b>>,
                         out |-> testCollision_RectVsRect(heap, r1, r2)]
    /\ UNCHANGED <<lifecycleVars, eventVars, pc, clock, pressSeen, cloneVars,
                   xform, geoVars>>

\* the program moves one of its Rectangles, within the corners' range
MoveRectangle ==
    /\ \E r \in {rect1, rect2}, d \in Deltas :
          LET h == GraphicsObject_move(heap, r, d[1], d[2])
          IN  /\ \A i \in 1..2, j \in 1..2 : Geometry(h, r)[i][j] \in 0..3
              /\ heap' = h
    /\ answer' = NoAnswer
    /\ UNCHANGED <<lifecycleVars, eventVars, pc, clock, pressSeen, orig, copy,
                   xform, geoVars>>

NextCollide == Collide \/ MoveRectangle

SpecCollide == InitCollide /\ [][NextCollide]_vars

----------------------------------------------------------------------------
(* A program that constructs a RotatablePolygon and a pivot Point, and      *)
(* moves and rotates the polygon.  The polygon is not drawn.                 *)

\* the vertices the program builds its polygon from
PolygonArgs ==
    { << <<0, 0>>, <<2, 0>>, <<2, 2>> >>,
      << <<1, 1>>, <<3, 1>>, <<1, 2>> >>,
      << <<0, 1>>, <<1, 0>>, <<2, 1>>, <<1, 2>> >> }

\* where the program puts its pivot
Pivots == {<<0, 0>>, <<1, 1>>, <<1, 2>>, <<2, 1>>}

\* the angles it rotates by
Degrees == {0, 90, 180, -90}

\* Point(v) for each v of vs
RECURSIVE NewPoints(_, _)
NewPoints(h, vs) ==
    IF vs = <<>> THEN [h |-> h, r |-> <<>>]
    ELSE LET c == Point_init(h, Head(vs)[1], Head(vs)[2])
             rest == NewPoints(c.h, Tail(vs))
         IN  [h |-> rest.h, r |-> <<c.r>> \o rest.r]

InitRotate ==
    /\ InitWindows
    /\ copy = NoRef /\ rect1 = NoRef /\ rect2 = NoRef
    /\ xform = NoTrans /\ answer = NoAnswer
    /\ \E vs \in PolygonArgs, v \in Pivots :
          LET pivot == Point_init(<<>>, v[1], v[2])
              ps == NewPoints(pivot.h, vs)
              o == RotatablePolygon_init(ps.h, ps.r)
          IN  heap = o.h /\ orig = o.r /\ held = {pivot.r}

Rotate ==
    /\ \E degrees \in Degrees, about \in held \cup {NoRef} :
          heap' = Collect(rotate(heap, orig, degrees, about), Len(heap))
    /\ UNCHANGED <<lifecycleVars, eventVars, pc, clock, pressSeen, orig, copy,
                   calcVars, geoVars>>

NextRotate == Rotate \/ MoveShape("orig")

SpecRotate == InitRotate /\ [][NextRotate]_vars

----------------------------------------------------------------------------
(* A program that keeps the Points it gives to a shape and the Points the    *)
(* shape gives to it, and assigns to their x.                                *)

\* Points the program holds at most
MaxHeld == 4

\* the classes of the shapes it constructs
Owners == (Variants \ {"Point"}) \cup {"RotatablePolygon"}

BBoxes == {"Rectangle", "RoundedRectangle", "Oval", "Arc", "Circle", "Line"}

\* the three Points that Construct passes to the constructor
Given ==
    LET a == Point_init(<<>>, 1, 1)
        b == Point_init(a.h, 3, 2)
        c == Point_init(b.h, 2, 3)
    IN  {a.r, b.r, c.r}

\* the accessors of a shape that return Points
Accessors(h, s) ==
    CASE h[s].class \in BBoxes -> {"point1", "point2"}
      [] h[s].class = "Polygon" -> {"points"}
      [] h[s].class = "RotatablePolygon" -> {"points", "center"}
      [] h[s].class = "Text" -> {"getAnchor"}

\* the Points an accessor returns
Access(h, s, accessor) ==
    CASE accessor = "point1" -> LET c == point1(h, s) IN [h |-> c.h, r |-> <<c.r>>]
      [] accessor = "point2" -> LET c == point2(h, s) IN [h |-> c.h, r |-> <<c.r>>]
      [] accessor = "points" -> points(h, s)
      [] accessor = "center" -> LET c == center(h, s) IN [h |-> c.h, r |-> <<c.r>>]
      [] accessor = "getAnchor" ->
            LET c == getAnchor(h, s) IN [h |-> c.h, r |-> <<c.r>>]

\* the setters of a shape that take a Point
Setters(h, s) ==
    CASE h[s].class \in BBoxes -> {"point1", "point2"}
      [] h[s].class = "RotatablePolygon" -> {"center"}
      [] OTHER -> {}

Assign(h, s, setter, p) ==
    CASE setter = "point1" -> point1_set(h, s, p)
      [] setter = "point2" -> point2_set(h, s, p)
      [] setter = "center" -> center_set(h, s, p)

\* Point.x, assigned
x_set(h, p, number) == [h EXCEPT ![p].x = number]

InitAlias ==
    /\ InitWindows
    /\ copy = NoRef /\ rect1 = NoRef /\ rect2 = NoRef
    /\ xform = NoTrans /\ answer = NoAnswer
    /\ \E class \in Owners :
          LET o == Construct(class)
          IN  heap = o.h /\ orig = o.r
    /\ held = Given

\* the program reads an accessor and keeps the first Point it returns
GetPoints ==
    /\ Cardinality(held) < MaxHeld
    /\ \E accessor \in Accessors(heap, orig) :
          LET c == Access(heap, orig, accessor)
          IN  heap' = c.h /\ held' = held \cup {c.r[1]}
    /\ UNCHANGED <<lifecycleVars, eventVars, pc, clock, pressSeen, orig, copy,
                   calcVars, rect1, rect2>>

\* the program assigns one of its Points to a setter
SetPoint ==
    /\ \E setter \in Setters(heap, orig), p \in held :
          heap' = Assign(heap, orig, setter, p)
    /\ UNCHANGED <<lifecycleVars, eventVars, pc, clock, pressSeen, orig, copy,
                   calcVars, geoVars>>

\* the program assigns to the x of one of its Points
Mutate ==
    /\ \E p \in held : heap' = x_set(heap, p, 5)
    /\ UNCHANGED <<lifecycleVars, eventVars, pc, clock, pressSeen, orig, copy,
                   calcVars, geoVars>>

NextAlias == GetPoints \/ SetPoint \/ Mutate

SpecAlias == InitAlias /\ [][NextAlias]_vars

----------------------------------------------------------------------------
(* Vocabulary of the properties *)

\* how often s occurs in the sequence
Count(seq, s) == Cardinality({i \in 1..Len(seq) : seq[i] = s})

\* the operation that ended in frame st changed nothing of the program state
Same(st) ==
    /\ st.closed = closed
    /\ st.destroyed = destroyed
    /\ st.trans = trans
    /\ st.items = items
    /\ st.canvas = canvas
    /\ st.nextId = nextId
    /\ st.swin = swin
    /\ st.sid = sid
    /\ st.config = config
    /\ st.geom = geom

\* the shape has a window and that window is open
AttachedOpen(s) == swin[s] # NoWin /\ ~closed[swin[s]]

----------------------------------------------------------------------------
(* Properties *)

\* C1: for every open window W and every shape S, S occurs in W's registry
\* exactly once if S is attached to W and not at all otherwise (setCoords
\* being given distinct corners: specification SpecGood).
C1_RegistryAgreement ==
    \A w \in Windows : \A s \in Shapes :
        ~closed[w] => Count(items[w], s) = (IF swin[s] = w THEN 1 ELSE 0)

\* C1 witness: after a draw, an undraw and a setCoords, one shape is attached
\* to the open, remapped window W1 and registered there, the other is not.
C1_Witness ==
    \E s1, s2 \in Shapes :
        /\ ~closed["W1"] /\ trans["W1"] # NoTrans
        /\ swin[s1] = "W1" /\ sid[s1] > 1 /\ items["W1"] = <<s1>>
        /\ swin[s2] = NoWin /\ nextId["W1"] > 2

\* C2: a shape's window reference and its native handle are both present or
\* both absent, in every reachable state.
C2_AttachmentInvariant ==
    \A s \in Shapes : (swin[s] = NoWin) <=> (sid[s] = NoId)

\* C3: draw(S, W) on a shape attached to an open window raises the
\* already-drawn error, changes no state and makes no canvas call.
C3_DrawTwiceFails ==
    \A s \in Shapes, w \in Windows :
        AttachedOpen(s) =>
            \A st \in Run(LAMBDA f : draw(f, s, w)) :
                st.err = OBJ_ALREADY_DRAWN /\ Same(st) /\ st.calls = <<>>

\* C3 witness: a shape attached to one open window is drawn into the other
\* open window, and the call ends with the already-drawn error.
C3_Witness ==
    \E s \in Shapes, w \in Windows :
        /\ AttachedOpen(s) /\ swin[s] # w /\ ~closed[w]
        /\ sid[s] \in canvas[swin[s]]
        /\ \E st \in Run(LAMBDA f : draw(f, s, w)) : st.err = OBJ_ALREADY_DRAWN

\* C4: no shape is in the registries of two distinct open windows, and a
\* shape attached to one window becomes attached to another only if the
\* first window is closed (otherwise it passes through the detached state).
C4_OneOpenWindow ==
    /\ [](\A s \in Shapes : \A w1, w2 \in Windows :
            (w1 # w2 /\ ~closed[w1] /\ ~closed[w2])
                => ~(InSeq(items[w1], s) /\ InSeq(items[w2], s)))
    /\ [][\A s \in Shapes :
            (swin[s] # NoWin /\ swin'[s] # NoWin /\ swin'[s] # swin[s])
                => closed[swin[s]]]_vars

\* C4 witness: a shape is attached to open W2 and registered there, while it
\* is still listed by W1, which was closed before the shape was drawn again.
C4_Witness ==
    \E s \in Shapes :
        /\ closed["W1"] /\ ~closed["W2"]
        /\ swin[s] = "W2" /\ InSeq(items["W2"], s) /\ InSeq(items["W1"], s)

\* C5: undraw() of an attached shape removes it from the registry of the
\* window it was attached to and clears the attachment, whether that window
\* is open or closed.
C5_UndrawRemoves ==
    \A s \in Shapes :
        swin[s] # NoWin =>
            \A st \in Run(LAMBDA f : undraw(f, s)) :
                /\ Count(st.items[swin[s]], s) = 0
                /\ st.swin[s] = NoWin /\ st.sid[s] = NoId

\* C6: undraw() of a detached shape raises nothing, changes no state and
\* makes no canvas call; a second undraw() after a first one changes nothing.
C6_UndrawIdempotent ==
    \A s \in Shapes :
        /\ swin[s] = NoWin =>
              \A st \in Run(LAMBDA f : undraw(f, s)) :
                  st.err = NoErr /\ Same(st) /\ st.calls = <<>>
        /\ \A st \in Run(LAMBDA f : undraw(f, s)) :
              st.err = NoErr => undraw(st, s) = st

\* C6 witness: every shape is detached, and an open window has handed out a
\* canvas id and holds no item: a shape was drawn there and undrawn.
C6_Witness ==
    /\ \A s \in Shapes : swin[s] = NoWin /\ sid[s] = NoId
    /\ \E w \in Windows : ~closed[w] /\ nextId[w] > 1 /\ canvas[w] = {}
    /\ \A s \in Shapes : \A st \in Run(LAMBDA f : undraw(f, s)) : Same(st)

\* C7 as stated: draw(S, W) with W closed raises the closed-window error,
\* changes no state and makes no canvas call.
C7_DrawClosed_AsStated ==
    \A s \in Shapes, w \in Windows :
        closed[w] =>
            \A st \in Run(LAMBDA f : draw(f, s, w)) :
                st.err = CantDrawClosed /\ Same(st) /\ st.calls = <<>>

\* C7 as amended: draw(S, W) with W closed changes no state and makes no
\* canvas call; it raises the closed-window error unless S is attached to an
\* open window, in which case it raises the already-drawn error.
C7_DrawClosed ==
    \A s \in Shapes, w \in Windows :
        closed[w] =>
            \A st \in Run(LAMBDA f : draw(f, s, w)) :
                /\ st.err = (IF AttachedOpen(s) THEN OBJ_ALREADY_DRAWN
                             ELSE CantDrawClosed)
                /\ Same(st) /\ st.calls = <<>>

\* C7 witness: a shape whose window was closed under it is drawn into that
\* closed window again, and the call ends with the closed-window error.
C7_Witness ==
    \E s \in Shapes, w \in Windows :
        /\ closed[w] /\ swin[s] = w /\ sid[s] # NoId
        /\ \E st \in Run(LAMBDA f : draw(f, s, w)) : st.err = CantDrawClosed

\* the outcomes of the window-level operations on window w
LiveOutcomes(w) ==
    Run(LAMBDA f : setBackground(f, w))
    \cup Run(LAMBDA f : plot(f, w, 1, 1))
    \cup Run(LAMBDA f : plotPixel(f, w, 1, 1))
    \cup Run(LAMBDA f : flush(f, w))
    \cup UNION {Run(LAMBDA f : setCoords(f, w, c[1], c[2], c[3], c[4])) :
                   c \in Coords}

\* C8: every window-level operation on a closed window raises a
\* closed-window error and leaves the window's transform, the registries and
\* every shape's attachment unchanged.
C8_ClosedWindowOps ==
    \A w \in Windows :
        closed[w] =>
            \A st \in LiveOutcomes(w) :
                /\ st.err \in {WindowIsClosed, CantDrawClosed}
                /\ st.trans = trans /\ st.items = items
                /\ st.swin = swin /\ st.sid = sid

\* C9: the native window is released exactly once; close() on a closed
\* window changes no state; close() never changes a registry, a geometry or
\* a config and never raises; a closed window stays closed.
C9_CloseIdempotent ==
    /\ [](\A w \in Windows : destroyed[w] = (IF closed[w] THEN 1 ELSE 0))
    /\ [](\A w \in Windows : \A st \in Run(LAMBDA f : close(f, w)) :
            /\ st.err = NoErr /\ st.closed[w]
            /\ st.items = items /\ st.geom = geom /\ st.config = config
            /\ closed[w] => Same(st))
    /\ [][\A w \in Windows : closed[w] => closed'[w]]_vars

\* C9 witness: W1 is closed, was released once and still lists a shape;
\* closing it again leaves the state as it is.
C9_Witness ==
    /\ closed["W1"] /\ destroyed["W1"] = 1 /\ items["W1"] # <<>>
    /\ \A st \in Run(LAMBDA f : close(f, "W1")) : Same(st)

\* the canvas calls of the operation that ended in st are, for each item of
\* w's registry in turn, one delete of the id it had and then one create of
\* the id it has now, and nothing else; the shapes not registered in w are
\* as they were
RedrawnOnce(st, w) ==
    /\ Len(st.calls) = 2 * Len(items[w])
    /\ \A i \in 1..Len(items[w]) :
        LET s == items[w][i]
            del == st.calls[2 * i - 1]
            cre == st.calls[2 * i]
        IN  /\ del.fn = "delete" /\ del.w = w /\ del.id = sid[s]
            /\ cre.fn = "create" /\ cre.w = w /\ cre.id = st.sid[s]
            /\ st.swin[s] = w /\ st.sid[s] # sid[s]
    /\ \A s \in Shapes :
        ~InSeq(items[w], s) =>
            /\ st.swin[s] = swin[s] /\ st.sid[s] = sid[s]
            /\ st.geom[s] = geom[s] /\ st.config[s] = config[s]

Held(w) == {sid[s] : s \in {x \in Shapes : swin[x] = w /\ sid[x] # NoId}}

\* every canvas delete of the operation that ended in st that was given a
\* handle was given one that was live when it was made: on the canvas before the operation or
\* created by it, and not deleted by it before
DeletesLive(st) ==
    \A i \in 1..Len(st.calls) :
        LET c == st.calls[i]
        IN  (c.fn = "delete" /\ c.id # NoId) =>
                /\ \/ c.id \in canvas[c.w]
                   \/ \E j \in 1..(i - 1) :
                        st.calls[j].fn = "create" /\ st.calls[j].w = c.w
                            /\ st.calls[j].id = c.id
                /\ ~\E j \in 1..(i - 1) :
                        st.calls[j].fn = "delete" /\ st.calls[j].w = c.w
                            /\ st.calls[j].id = c.id

\* the outcomes of the operations that delete handles
LifecycleOutcomes ==
    UNION {Run(LAMBDA f : undraw(f, s)) \cup Run(LAMBDA f : redraw(f, s)) :
              s \in Shapes}
    \cup UNION {Run(LAMBDA f : GraphWin_redraw(f, w)) : w \in Windows}

\* C12: in every open window the live handles are exactly the handles held
\* by the shapes attached to it, distinct attached shapes hold distinct
\* handles, and no undraw or redraw deletes a handle that is not live (none
\* is deleted twice).
C12_HandleOwnership ==
    /\ \A w \in Windows : ~closed[w] => canvas[w] = Held(w)
    /\ \A s1, s2 \in Shapes :
        (s1 # s2 /\ swin[s1] # NoWin /\ swin[s1] = swin[s2]
            /\ sid[s1] # NoId /\ sid[s2] # NoId) => sid[s1] # sid[s2]
    /\ \A st \in LifecycleOutcomes : DeletesLive(st)

\* the operation that ended in st returned a value to its caller
Returned(st) == ~st.wait /\ st.err = NoErr

\* the Button-1 presses dispatched to w by the pumps of the operation
Presses(st, w, type) ==
    {i \in 1..Len(st.delivered) :
        st.delivered[i].type = type /\ st.delivered[i].w = w}

\* C13: getMouse never returns a stale click: entering it discards the
\* stored primary click (also one delivered by the entry flush) and does not
\* return; the point a poll iteration returns is the world conversion of a
\* press dispatched by that iteration's pump; on return the stored click is
\* cleared, and a checkMouse that follows with no new press reports no click.
C13_NoStaleClick ==
    /\ pc = Idle =>
        \A w \in Windows :
            \A st \in RunE(LAMBDA f : getMouse_enter(f, w), MouseEvents) :
                st.wait /\ st.mouseX[w] = NoPixel /\ st.mouseY[w] = NoPixel
    /\ pc.op = "getMouse" =>
        \A st \in RunE(LAMBDA f : getMouse_poll(f, pc.w), MouseEvents) :
            Returned(st) =>
                /\ \E i \in Presses(st, pc.w, "Button-1") :
                    st.val = Point(toWorld(st, pc.w, st.delivered[i].x,
                                           st.delivered[i].y))
                /\ st.mouseX[pc.w] = NoPixel /\ st.mouseY[pc.w] = NoPixel
                /\ checkMouse(st, pc.w).val = None

\* C13 witness: getMouse is polling W1 after a press was stored and
\* discarded (the button is down, no click is stored), and an iteration
\* whose pump delivers a press returns a point.
C13_Witness ==
    /\ pc = [op |-> "getMouse", w |-> "W1"]
    /\ mousePressed["W1"] /\ mouseX["W1"] = NoPixel /\ trans["W1"] # NoTrans
    /\ \E st \in RunE(LAMBDA f : getMouse_poll(f, "W1"), MouseEvents) :
        Returned(st) /\ st.val.kind = "Point"

\* the last press of the given button dispatched to w by the operation
LastPress(st, w, type) ==
    st.delivered[CHOOSE i \in Presses(st, w, type) :
                    \A j \in Presses(st, w, type) : j <= i]

\* C14: when an iteration of getMouse's poll loop on an open window has a
\* primary press dispatched at a pixel of the canvas and the window is still
\* open, getMouse stops polling at the end of that iteration and returns the
\* world coordinates of that press.
C14_PressEndsWait ==
    pc.op = "getMouse" =>
        \A st \in RunE(LAMBDA f : getMouse_poll(f, pc.w), MouseEvents) :
            (Presses(st, pc.w, "Button-1") # {} /\ ~st.closed[pc.w]) =>
                LET e == LastPress(st, pc.w, "Button-1")
                IN  /\ 0 <= e.x /\ e.x < Width[pc.w]
                    /\ 0 <= e.y /\ e.y < Height[pc.w]
                    /\ Returned(st)
                    /\ st.val = Point(toWorld(st, pc.w, e.x, e.y))

\* the frame with the primary and the secondary button exchanged
SwapButtons(st) ==
    [st EXCEPT !.mouseX = st.mouseXright, !.mouseY = st.mouseYright,
               !.mouseXright = st.mouseX, !.mouseYright = st.mouseY,
               !.mousePressed = st.mouseRtPressed,
               !.mouseRtPressed = st.mousePressed]

\* the event with the primary and the secondary button exchanged
SwapEvent(e) ==
    [e EXCEPT !.type = CASE @ = "Button-1" -> "Button-3"
                         [] @ = "Button-3" -> "Button-1"
                         [] @ = "ButtonRelease-1" -> "ButtonRelease-3"
                         [] @ = "ButtonRelease-3" -> "ButtonRelease-1"
                         [] OTHER -> @]

SwapBatch(b) == [i \in 1..Len(b) |-> SwapEvent(b[i])]

\* what the caller of a blocking call sees of a step, and the state it leaves
Seen(st) ==
    [wait |-> st.wait, err |-> st.err, val |-> st.val, closed |-> st.closed,
     mouseX |-> st.mouseX, mouseY |-> st.mouseY,
     mouseXright |-> st.mouseXright, mouseYright |-> st.mouseYright,
     mousePressed |-> st.mousePressed, mouseRtPressed |-> st.mouseRtPressed]

\* C15: getMouseRight mirrors getMouse: from every state and for every batch
\* of events, a step of getMouseRight (its entry, or an iteration of its
\* loop) returns, keeps waiting or fails, returns the point and leaves the
\* state that the same step of getMouse does from the state and for the
\* batch with the two buttons exchanged.
C15_RightMirrorsLeft ==
    /\ pc = Idle =>
        \A w \in Windows : \A b \in Batches(MouseEvents) :
            Seen(SwapButtons(getMouseRight_enter(FrameE(b), w)))
                = Seen(getMouse_enter(SwapButtons(FrameE(SwapBatch(b))), w))
    /\ pc.op = "getMouseRight" =>
        \A b \in Batches(MouseEvents) :
            Seen(SwapButtons(getMouseRight_poll(FrameE(b), pc.w)))
                = Seen(getMouse_poll(SwapButtons(FrameE(SwapBatch(b))), pc.w))

Blocking == {"getMouse", "getMouseRight", "getKey"}

\* the closed-window error of each blocking call
ClosedError(op) == IF op = "getKey" THEN GetKeyClosed ELSE GetMouseClosed

\* C16: closure cancels every blocking call: a poll iteration of getMouse,
\* getMouseRight or getKey after whose pump the window is closed (it was
\* closed before the call, or a pump of the call closed it) raises the
\* closed-window error and returns nothing, whatever else the pump delivered;
\* no step of a call returns a value or goes on waiting once it has seen the
\* window closed, and no step raises while the window is open.
C16_ClosureCancels ==
    /\ pc = Idle =>
        \A op \in Blocking : \A w \in Windows :
            \A st \in RunE(LAMBDA f : enter(f, op, w), CancelEvents) :
                st.err = NoErr /\ (Returned(st) => ~st.closed[w])
    /\ pc # Idle =>
        \A st \in RunE(LAMBDA f : poll(f, pc.op, pc.w), CancelEvents) :
            IF st.closed[pc.w]
            THEN ~st.wait /\ st.err = ClosedError(pc.op) /\ st.val = None
            ELSE st.err = NoErr

\* C16 witness: getKey is polling the open window W1, and an iteration whose
\* pump delivers a key press and then the closing of W1 raises the
\* closed-window error with the key still stored.
C16_Witness ==
    /\ pc = [op |-> "getKey", w |-> "W1"] /\ ~closed["W1"]
    /\ \E st \in RunE(LAMBDA f : getKey_poll(f, "W1"), CancelEvents) :
        st.closed["W1"] /\ st.lastKey["W1"] = "a" /\ st.err = GetKeyClosed

\* the click of the given button the window has stored once the events of
\* the operation that ended in st were dispatched: the last press among
\* them, or else the click stored before
Pending(st, w, type) ==
    IF Presses(st, w, type) # {}
    THEN <<LastPress(st, w, type).x, LastPress(st, w, type).y>>
    ELSE IF type = "Button-1" THEN <<mouseX[w], mouseY[w]>>
    ELSE <<mouseXright[w], mouseYright[w]>>

\* what a check returns for a pending click
Reported(st, w, c) ==
    IF c = <<NoPixel, NoPixel>> THEN None ELSE Point(toWorld(st, w, c[1], c[2]))

\* C17: most recent wins.  A pump stores the last press of each button it
\* dispatches and keeps the stored click of a button it has no press for;
\* checkMouse (checkMouseRight) on an open window returns the world
\* coordinates of the most recent primary (secondary) press that is pending,
\* or None if none is, and clears it, so that a check that follows with no
\* new press returns None; the other button's click is as the pump left it.
C17_MostRecentWins ==
    pc = Idle =>
        \A w \in Windows :
            /\ \A st \in RunE(LAMBDA f : pump(f), MouseEvents) :
                /\ <<st.mouseX[w], st.mouseY[w]>> = Pending(st, w, "Button-1")
                /\ <<st.mouseXright[w], st.mouseYright[w]>>
                        = Pending(st, w, "Button-3")
            /\ ~closed[w] =>
                /\ \A st \in RunE(LAMBDA f : checkMouse(f, w), MouseEvents) :
                    /\ st.err = NoErr
                    /\ st.val = Reported(st, w, Pending(st, w, "Button-1"))
                    /\ <<st.mouseX[w], st.mouseY[w]>> = <<NoPixel, NoPixel>>
                    /\ st.closed[w] \/ checkMouse(st, w).val = None
                    /\ <<st.mouseXright[w], st.mouseYright[w]>>
                            = Pending(st, w, "Button-3")
                /\ \A st \in RunE(LAMBDA f : checkMouseRight(f, w), MouseEvents) :
                    /\ st.err = NoErr
                    /\ st.val = Reported(st, w, Pending(st, w, "Button-3"))
                    /\ <<st.mouseXright[w], st.mouseYright[w]>>
                            = <<NoPixel, NoPixel>>
                    /\ st.closed[w] \/ checkMouseRight(st, w).val = None
                    /\ <<st.mouseX[w], st.mouseY[w]>> = Pending(st, w, "Button-1")

\* C17 witness: both buttons have a click pending in open W1, and a
\* checkMouse whose pump delivers two more primary presses returns the second
\* of them and leaves the secondary click pending.
C17_Witness ==
    /\ pc = Idle /\ ~closed["W1"] /\ trans["W1"] # NoTrans
    /\ mouseX["W1"] = 2 /\ mouseXright["W1"] = 0
    /\ \E st \in RunE(LAMBDA f : checkMouse(f, "W1"), MouseEvents) :
        /\ Cardinality(Presses(st, "W1", "Button-1")) = 2
        /\ st.val = Point(toWorld(st, "W1", 0, 2))
        /\ st.mouseXright["W1"] = 0 /\ st.mouseX["W1"] = NoPixel

\* C18: getKey is live: the value getKey returns is a non-empty key name,
\* and once a pump of a getKey call has dispatched a key press to the window
\* the call comes to an end (it returns, or the window was closed), whatever
\* key presses and releases the pumps deliver.
C18_GetKeyLive ==
    /\ [](pc.op = "getKey" =>
            \A st \in RunE(LAMBDA f : getKey_poll(f, pc.w), KeyEvents) :
                Returned(st) => (st.val.kind = "str" /\ st.val.s # ""))
    /\ (pressSeen ~> pc = Idle)

\* no key event was dispatched during the operation
NoKeyEvent(st) ==
    \A i \in 1..Len(st.delivered) :
        st.delivered[i].type \notin {"KeyPress", "KeyRelease"}

After(e) == pump(FrameE(<<e>>))

\* C20: after a key-press event for key k, k is in the pressed-key set and
\* last-key is k; after a key-release event for k, whether k was in the set
\* or not, k is not in the set and last-key is empty; membership of every
\* other key is unchanged and no error escapes the handler.
C20_KeyTransitions ==
    \A k \in Keys :
        LET p == After(Event("KeyPress", KeyWin, NoPixel, NoPixel, k))
            r == After(Event("KeyRelease", KeyWin, NoPixel, NoPixel, k))
        IN  (\E w \in Windows : ~closed[w]) =>
                /\ k \in p.keys[KeyWin] /\ p.lastKey[KeyWin] = k
                /\ p.keys[KeyWin] \ {k} = keys[KeyWin] \ {k}
                /\ p.cberr = <<>>
                /\ k \notin r.keys[KeyWin] /\ r.lastKey[KeyWin] = ""
                /\ r.keys[KeyWin] \ {k} = keys[KeyWin] \ {k}
                /\ r.cberr = <<>>

----------------------------------------------------------------------------
(* C21: _reconfig with an option that is not among the options of the       *)
(* shape's class raises UNSUPPORTED_METHOD, makes no canvas call and leaves  *)
(* the program state as it was (config, attachment and id of every shape);   *)
(* and the key set of every shape's config is the option set of its class    *)
(* in every reachable state.                                                 *)

C21_UnsupportedOption ==
    \A s \in Objects :
        /\ DOMAIN config[s] = Options(Kind[s])
        /\ \A o \in (DOMAIN DEFAULT_CONFIG) \ Options(Kind[s]) :
              \A st \in Run(LAMBDA f : _reconfig(f, s, o, "red")) :
                  st.err = UNSUPPORTED_METHOD /\ Same(st) /\ st.calls = <<>>

\* a shape drawn in an open window, its config already changed, is given an
\* option it does not support
C21_Witness ==
    \E s \in Objects :
        /\ AttachedOpen(s) /\ config[s] # InitConfig(Kind[s])
        /\ \E st \in Run(LAMBDA f : _reconfig(f, s, "outline", "red")) :
              st.err = UNSUPPORTED_METHOD

----------------------------------------------------------------------------
(* C22: assigning none, first, last or both to Line.arrow succeeds, and      *)
(* Line.arrow then reads as the value assigned, whether the line is drawn    *)
(* or not; assigning any other value raises BAD_OPTION, makes no canvas call *)
(* and leaves the stored value and the rest of the state as they were.       *)

C22_LineArrow ==
    \A s \in {x \in Objects : Kind[x] = "Line"} : \A v \in ArrowValues :
        \A st \in Run(LAMBDA f : Line_arrow_set(f, s, v)) :
            IF v \in {"none", "first", "last", "both"}
            THEN st.err = NoErr /\ Line_arrow(st, s) = v
            ELSE /\ st.err = BAD_OPTION /\ st.calls = <<>>
                 /\ Line_arrow(st, s) = config[s].arrow /\ Same(st)

\* a line drawn in an open window whose arrow has been set to both
C22_Witness ==
    AttachedOpen("line") /\ sid["line"] # NoId /\ config["line"].arrow = "both"

----------------------------------------------------------------------------
(* C23: Text.setFace succeeds exactly for helvetica, arial, courier and      *)
(* times roman, Text.setSize exactly for the integers from 5 to 36, and      *)
(* Text.setStyle exactly for bold, normal, italic and bold italic; a call    *)
(* that succeeds changes its own component of the font and no other, and a   *)
(* call with any other value raises BAD_OPTION and leaves the font as it was.*)

Font(st, s) == st.config[s].font

C23_FontValidation ==
    \A s \in {x \in Objects : Kind[x] = "Text"} :
        /\ \A v \in Faces : \A st \in Run(LAMBDA f : setFace(f, s, v)) :
              IF v \in {"helvetica", "arial", "courier", "times roman"}
              THEN /\ st.err = NoErr
                   /\ Font(st, s) = <<v, config[s].font[2], config[s].font[3]>>
              ELSE st.err = BAD_OPTION /\ Font(st, s) = config[s].font
        /\ \A v \in Sizes : \A st \in Run(LAMBDA f : setSize(f, s, v)) :
              IF v[2] = 1 /\ 5 <= v[1] /\ v[1] <= 36
              THEN /\ st.err = NoErr
                   /\ Font(st, s) = <<config[s].font[1], v, config[s].font[3]>>
              ELSE st.err = BAD_OPTION /\ Font(st, s) = config[s].font
        /\ \A v \in Styles : \A st \in Run(LAMBDA f : setStyle(f, s, v)) :
              IF v \in {"bold", "normal", "italic", "bold italic"}
              THEN /\ st.err = NoErr
                   /\ Font(st, s) = <<config[s].font[1], config[s].font[2], v>>
              ELSE st.err = BAD_OPTION /\ Font(st, s) = config[s].font

----------------------------------------------------------------------------
(* C24: the clone of a shape, drawn or not, has no window and no id and is   *)
(* in no window's item list; making it changes no object that existed        *)
(* before, so the original stays attached as it was; and once the clone      *)
(* exists, a move or a _reconfig of either shape leaves the geometry and     *)
(* the config of the other as they were.                                     *)

C24_CloneIndependent ==
    /\ LET c == clone(heap, orig)
       IN  /\ c.h[c.r].window = NoRef /\ c.h[c.r].id = NoId
           /\ \A r \in 1..Len(c.h) :
                 c.h[r].class = "GraphWin" =>
                    \A i \in 1..Len(c.h[r].items) : c.h[r].items[i] # c.r
           /\ \A r \in 1..Len(heap) : c.h[r] = heap[r]
    /\ copy # NoRef =>
          \A p \in {<<orig, copy>>, <<copy, orig>>} :
              /\ \A d \in Deltas :
                    LET h == GraphicsObject_move(heap, p[1], d[1], d[2])
                    IN  /\ Geometry(h, p[2]) = Geometry(heap, p[2])
                        /\ Config(h, p[2]) = Config(heap, p[2])
              /\ \A o \in DOMAIN Config(heap, p[1]) :
                    LET h == GraphicsObject_reconfig(heap, p[1], o, "blue")
                    IN  /\ Geometry(h, p[2]) = Geometry(heap, p[2])
                        /\ Config(h, p[2]) = Config(heap, p[2])

\* a drawn shape has been cloned, and the two have since been moved and
\* configured apart
C24_Witness ==
    /\ copy # NoRef /\ heap[orig].window # NoRef
    /\ heap[orig].class # "Circle"
    /\ Geometry(heap, copy) # Geometry(heap, orig)
    /\ Config(heap, copy) # Config(heap, orig)

----------------------------------------------------------------------------
(* C25: whatever moves the shape has made, the geometry of its clone (the    *)
(* point, the corners, the vertices or the anchor) is the geometry the       *)
(* shape has when it is cloned.                                              *)

C25_CloneCopiesGeometry ==
    LET c == clone(heap, orig)
    IN  Geometry(c.h, c.r) = Geometry(heap, orig)

----------------------------------------------------------------------------
(* C26: the primitive that draw or redraw creates for a Rectangle or a Line  *)
(* has as its corners the projections of the shape's own two corner points   *)
(* under the transform the window has at the call: toScreen(point1.x,        *)
(* point1.y) and toScreen(point2.x, point2.y).                               *)

\* every primitive the operation has created for s is the projection of its
\* corner points
Projected(st, s) ==
    \A i \in 1..Len(st.calls) :
        st.calls[i].fn = "create" =>
            LET w == st.calls[i].w
                g == st.geom[s]
            IN  st.calls[i].args.coords =
                    toScreen(st, w, g.p1[1], g.p1[2])
                    \o toScreen(st, w, g.p2[1], g.p2[2])

C26_BoxProjection ==
    \A s \in {x \in Objects : Kind[x] \in {"Rectangle", "Line"}} :
        /\ \A w \in Windows :
              \A st \in Run(LAMBDA f : draw(f, s, w)) : Projected(st, s)
        /\ \A st \in Run(LAMBDA f : redraw(f, s)) : Projected(st, s)

----------------------------------------------------------------------------
(* C27: the polygon that draw or redraw creates for a RoundedRectangle has   *)
(* as its vertices the projections, under the transform the window has at    *)
(* the call, of the 20-point outline of the corner points the shape has at   *)
(* the call.                                                                 *)

\* the outline of the corner points the shape has now
OutlineNow(st, s) ==
    Outline(st.geom[s].p1[1], st.geom[s].p1[2],
            st.geom[s].p2[1], st.geom[s].p2[2], Radius[s])

\* the x, y, x, y, ... list of world coordinates, projected point by point
ProjectAll(st, w, xy) ==
    [i \in 1..Len(xy) |->
        IF i % 2 = 1 THEN toScreen(st, w, xy[i], xy[i + 1])[1]
        ELSE toScreen(st, w, xy[i - 1], xy[i])[2]]

OutlineProjected(st, s) ==
    \A i \in 1..Len(st.calls) :
        st.calls[i].fn = "create" =>
            /\ ~toScreenRaises(st, st.calls[i].w)
            /\ st.calls[i].args.coords =
                   ProjectAll(st, st.calls[i].w, OutlineNow(st, s))

C27_RoundedFollows ==
    \A s \in {x \in Objects : Kind[x] = "RoundedRectangle"} :
        /\ \A w \in Windows :
              \A st \in Run(LAMBDA f : draw(f, s, w)) : OutlineProjected(st, s)
        /\ \A st \in Run(LAMBDA f : redraw(f, s)) : OutlineProjected(st, s)

----------------------------------------------------------------------------
(* C28: for every world point, also one that maps to a negative pixel,       *)
(* Transform.screen returns on each axis the integer nearest to the exact    *)
(* pixel coordinate (x - xbase) / xscale, (ybase - y) / yscale; and the      *)
(* corner (xlow, ylow) maps to the pixel (0, h - 1), the corner (xhigh,      *)
(* yhigh) to the pixel (w - 1, 0).                                           *)

Abs(n) == IF n < 0 THEN -n ELSE n

\* a Transform whose screen does not divide by zero
Usable(t) == t # NoTrans /\ t # Failed /\ ~ScreenRaises(t)

\* p is within half a pixel of the exact pixel coordinates of (x, y)
Nearest(t, p, x, y) ==
    /\ 2 * Abs(p[1] * t.xspan - (x - t.xbase) * t.w1) <= Abs(t.xspan)
    /\ 2 * Abs(p[2] * t.yspan - (t.ybase - y) * t.h1) <= Abs(t.yspan)

C28_ScreenNearest ==
    Usable(xform) =>
        /\ \A x \in WorldPoints, y \in WorldPoints :
              Nearest(xform, screen(xform, x, y), x, y)
        /\ screen(xform, xform.xbase, xform.ybase - xform.yspan)
              = <<0, xform.h1>>
        /\ screen(xform, xform.xbase + xform.xspan, xform.ybase)
              = <<xform.w1, 0>>

----------------------------------------------------------------------------
(* C29: for a Transform of a window more than one pixel wide and high, with  *)
(* distinct corners: screen(world(xs, ys)) is within one pixel of (xs, ys)   *)
(* on each axis, for every integer pixel; and world(screen(x, y)) is within  *)
(* one scale unit, |xscale| and |yscale|, of (x, y), for every world point.  *)

C29_RoundTrip ==
    Usable(xform) =>
        /\ \A xs \in Pixels, ys \in Pixels :
              LET q == world(xform, xs, ys)
                  p == screenQ(xform, q[1], q[2])
              IN  Abs(p[1] - xs) <= 1 /\ Abs(p[2] - ys) <= 1
        /\ \A x \in WorldPoints, y \in WorldPoints :
              LET p == screen(xform, x, y)
                  q == world(xform, p[1], p[2])
              IN  /\ Abs(q[1][1] - x * q[1][2]) <= Abs(xform.xspan)
                  /\ Abs(q[2][1] - y * q[2][2]) <= Abs(xform.yspan)

----------------------------------------------------------------------------
(* C30: constructing a Transform for a window one pixel wide or one pixel    *)
(* high fails with ZeroDivisionError; setCoords on such a window raises that *)
(* error and leaves the window's transform, its item list and every shape's  *)
(* window and id as they were, with no canvas call made.                     *)

C30_DegenerateSize ==
    /\ \A a \in TransformArgs :
          (a[1] = 1 \/ a[2] = 1) =>
              Transform_init(a[1], a[2], a[3], a[4], a[5], a[6]) = Failed
    /\ \A c \in Coords :
          \A st \in Run(LAMBDA f : setCoords(f, Narrow, c[1], c[2], c[3], c[4])) :
              /\ st.err = ZeroDivisionError
              /\ Same(st)
              /\ st.calls = <<>>

\* setCoords raises on the narrow window while a shape is drawn in it
C30_Witness ==
    /\ \E s \in Shapes : swin[s] = Narrow /\ sid[s] # NoId
    /\ ~closed[Narrow]
    /\ \E c \in GoodCoords :
          \E st \in Run(LAMBDA f : setCoords(f, Narrow, c[1], c[2], c[3], c[4])) :
              st.err = ZeroDivisionError

----------------------------------------------------------------------------
(* C31: testCollision_RectVsRect returns true exactly when the closed        *)
(* axis-aligned boxes spanned by the corner pairs of the two Rectangles      *)
(* intersect, whichever opposite corners each Rectangle was built from; so   *)
(* every Rectangle collides with itself, and the test is symmetric.          *)

Min(a, b) == IF a <= b THEN a ELSE b
Max(a, b) == IF a >= b THEN a ELSE b

\* the closed boxes spanned by the corner pairs g1 and g2 intersect
BoxesIntersect(g1, g2) ==
    \A j \in 1..2 :
        /\ Min(g1[1][j], g1[2][j]) <= Max(g2[1][j], g2[2][j])
        /\ Min(g2[1][j], g2[2][j]) <= Max(g1[1][j], g1[2][j])

C31_RectVsRect ==
    rect1 # NoRef =>
        \A a \in {rect1, rect2}, b \in {rect1, rect2} :
            /\ testCollision_RectVsRect(heap, a, b)
                  = BoxesIntersect(Geometry(heap, a), Geometry(heap, b))
            /\ testCollision_RectVsRect(heap, a, a)
            /\ testCollision_RectVsRect(heap, a, b)
                  = testCollision_RectVsRect(heap, b, a)

----------------------------------------------------------------------------
(* C32: after rotate(degrees, about = P) of a RotatablePolygon the angle is  *)
(* theta = (old theta + degrees) mod 360, with 0 <= theta < 360, and every   *)
(* vertex is the original vertex rotated through theta about P, with P's x   *)
(* for the x offset and P's y for the y offset.  Angles are multiples of 90  *)
(* degrees; the rotation may turn either way, the same way for every vertex. *)

\* v turned through theta about p: counterclockwise for dir = 1, clockwise
\* for dir = -1, with the y axis pointing up
Rotated(v, theta, p, dir) ==
    << p[1] + (v[1] - p[1]) * Cos(theta) - dir * (v[2] - p[2]) * Sin(theta),
       p[2] + dir * (v[1] - p[1]) * Sin(theta) + (v[2] - p[2]) * Cos(theta) >>

IsRotatable == orig # NoRef /\ heap[orig].class = "RotatablePolygon"

C32_Rotate ==
    IsRotatable =>
        \A degrees \in Degrees, about \in held :
            LET h == rotate(heap, orig, degrees, about)
                theta == h[orig].theta
            IN  /\ theta = (heap[orig].theta + degrees) % 360
                /\ theta \in 0..359
                /\ \E dir \in {1, -1} :
                      \A i \in 1..Len(h[orig].points) :
                          XY(h, h[orig].points[i])
                              = Rotated(XY(h, h[orig].orig_points[i]), theta,
                                        XY(heap, about), dir)

----------------------------------------------------------------------------
(* C33: after any sequence of move and rotate calls, the center of a         *)
(* RotatablePolygon is the centroid of its current vertices: the rounded     *)
(* mean of their x and of their y.                                           *)

Centroid(h, s) ==
    << Round(SumAttr(h, h[s].points, "x"), Len(h[s].points)),
       Round(SumAttr(h, h[s].points, "y"), Len(h[s].points)) >>

C33_CentroidTracked ==
    IsRotatable => XY(heap, heap[orig].center) = Centroid(heap, orig)

----------------------------------------------------------------------------
(* C34: no Point is shared across an ownership boundary.  Assigning to a     *)
(* Point the program holds, after it was passed to the shape's constructor   *)
(* or to its point1, point2 or center setter, or after it was returned by    *)
(* the point1, point2, points, center or getAnchor accessor, changes no      *)
(* part of the shape's geometry; and assigning into the dictionary that the  *)
(* config accessor returns does not change the shape's config.               *)

\* the points of a shape, with the center of a RotatablePolygon and the
\* position of a Circle
Shape(h, s) ==
    [points |-> Geometry(h, s),
     center |-> IF h[s].center = NoRef THEN <<>> ELSE XY(h, h[s].center),
     position |-> IF h[s].position = NoRef THEN <<>> ELSE XY(h, h[s].position)]

IsOwner == orig # NoRef /\ heap[orig].class \in Owners /\ held # {}

C34_NoSharedPoint ==
    IsOwner =>
        /\ \A p \in held, number \in {0, 5} :
              Shape(x_set(heap, p, number), orig) = Shape(heap, orig)
        /\ \A accessor \in Accessors(heap, orig) :
              LET c == Access(heap, orig, accessor)
              IN  \A i \in 1..Len(c.r) :
                      Shape(x_set(c.h, c.r[i], 5), orig) = Shape(heap, orig)
        /\ LET c == config_get(heap, orig)
           IN  Config(dict_set(c.h, c.r, "fill", "red"), orig) = Config(heap, orig)

----------------------------------------------------------------------------
(* C35: with autoflush on, a close event of the window that a pump inside    *)
(* setCoords delivers, after an item's undraw and before its re-draw, does   *)
(* not make setCoords fail and leaves no item that was attached before the   *)
(* call detached and missing from the registry.                              *)

\* the close of w arrives at the pump of the undraw of one of w's items
ClosedMidRedraw(st, w) ==
    /\ st.sched[w] % 2 = 1
    /\ st.sched[w] < 2 * Len(items[w])

C35_CloseDuringSetCoords ==
    \A w \in {v \in Windows : Autoflush[v] /\ ~closed[v]}, c \in GoodCoords :
        \A st \in Run(LAMBDA f : setCoords(f, w, c[1], c[2], c[3], c[4])) :
            ClosedMidRedraw(st, w) =>
                /\ st.err = NoErr
                /\ \A s \in Shapes :
                      swin[s] = w => st.swin[s] = w /\ InSeq(st.items[w], s)

----------------------------------------------------------------------------
(* C36: in every state reached by key presses, key releases (of keys that    *)
(* are pressed or not), getKey and checkKey calls, a last key that is not    *)
(* empty is in the set of pressed keys of its window.                        *)

C36_LastKeyPressed ==
    \A w \in GraphWins : lastKey[w] # NoKey => lastKey[w] \in keys[w]

\* a press has set the last key while two keys are down
C36_Witness ==
    /\ lastKey[KeyWin] # NoKey
    /\ Cardinality(keys[KeyWin]) = 2

====
